---- MODULE Spec2Model ----
(***************************************************************************)
(* Model of the media-transcriber job orchestration core:                  *)
(*   - jobs.Manager   (src/internal/jobs/events_test.go, lines 37-162)     *)
(*   - jobs.EventBus  (src/unnamed/part_002)                               *)
(*   - bootstrap.App  (src/internal/bootstrap/app.go, lines 284-472)       *)
(*   - transcribe.Pipeline.Run (src/internal/transcribe/pipeline.go)       *)
(*                                                                         *)
(* Job ids: the code builds "job-<UnixNano>"; an id is modelled by the     *)
(* clock reading n >= 1 it was built from, and the empty string by 0.      *)
(***************************************************************************)
EXTENDS Integers, Sequences, FiniteSets, TLC

VARIABLES
    current,      \* Manager.current : domain.Job {ID, Status}
    mgrRet,       \* observer: the last Manager call (op, arg, state before, error)
    nextSeq,      \* EventBus.nextSeq
    maxEvents,    \* EventBus.maxEvents
    events,       \* EventBus.events
    published,    \* observer: every event Publish returned, in publish order
    busRet,       \* observer: the last EventBus call (op, argument, result)
    activeJobID,  \* App.activeJobID (EmptyID for "")
    cancel,       \* App.cancel: the job whose context it cancels (NoCancel for nil)
    ctxDone,      \* the jobs whose context.Context has been cancelled
    clock,        \* time.Now().UnixNano() readings that became job ids
    starter,      \* per job: position of the StartTranscription call that created it
    canceller,    \* the CancelTranscription call in progress: position and locals
    cancels,      \* observer: the CancelTranscription calls made, in call order
    task,         \* per job: the runTranscriptionJob goroutine (position, locals)
    terminals,    \* observer: per job, the terminal statuses its Manager record held
    emitting,     \* per publisher: the event Publish returned, not yet emitted
    emitted,      \* the events EventsEmit has put on the live-push channel, in order
    reader,       \* a client polling JobEvents: the seq it passes, what it received
    req,          \* transcribe.Request of the Pipeline.Run call (strings as byte sequences)
    disk,         \* the file system Pipeline.Run works on
    run,          \* the Pipeline.Run call: position, locals, and what it returned
    calls         \* observer: callbacks, commands and removals of the run, in order

mgrVars == <<current, mgrRet>>
busVars == <<nextSeq, maxEvents, events, published, busRet>>
appVars == <<activeJobID, cancel, ctxDone, clock, starter, canceller, cancels, task,
             terminals>>
pushVars == <<emitting, emitted, reader>>
pipeVars == <<req, disk, run, calls>>

vars == <<mgrVars, busVars, appVars, pushVars, pipeVars>>

(***************************************************************************)
(* Bounds                                                                  *)
(***************************************************************************)
MaxJobs == 2
MaxRaceJobs == 3
MaxCap == 3
MaxPublish == 5
MaxCancels == 1
MaxSeq == 10
MaxReleases == 3

(***************************************************************************)
(* domain.JobStatus                                                        *)
(***************************************************************************)
JobStatusIdle == "idle"
JobStatusPreprocessing == "preprocessing"
JobStatusTranscribing == "transcribing"
JobStatusExporting == "exporting"
JobStatusDone == "done"
JobStatusFailed == "failed"
JobStatusCancelled == "cancelled"

JobStatus ==
    { JobStatusIdle, JobStatusPreprocessing, JobStatusTranscribing,
      JobStatusExporting, JobStatusDone, JobStatusFailed, JobStatusCancelled }

EmptyID == 0

Job(id, status) == [ID |-> id, Status |-> status]

(***************************************************************************)
(* jobs.Manager                                                            *)
(***************************************************************************)
NilErr == "nil"
ErrJobAlreadyRunning == "job already running"
ErrNoRunningJob == "no running job"
ErrNoActiveJob == "cannot transition without an active job"
ErrInvalidTransition == "invalid transition"

NewManager == Job(EmptyID, JobStatusIdle)

isRunning(status) ==
    status \in { JobStatusPreprocessing, JobStatusTranscribing, JobStatusExporting }

\* Mutant: the terminal statuses lose their edge to idle.
isValidTransition_NoIdleEdge(from, to) ==
    CASE from = JobStatusIdle ->
            to = JobStatusPreprocessing
      [] from = JobStatusPreprocessing ->
            to \in { JobStatusTranscribing, JobStatusFailed, JobStatusCancelled }
      [] from = JobStatusTranscribing ->
            to \in { JobStatusExporting, JobStatusFailed, JobStatusCancelled }
      [] from = JobStatusExporting ->
            to \in { JobStatusDone, JobStatusFailed, JobStatusCancelled }
      [] from \in { JobStatusDone, JobStatusFailed, JobStatusCancelled } ->
            to = JobStatusPreprocessing
      [] OTHER -> FALSE

isValidTransition(from, to) ==
    CASE from = JobStatusIdle ->
            to = JobStatusPreprocessing
      [] from = JobStatusPreprocessing ->
            to \in { JobStatusTranscribing, JobStatusFailed, JobStatusCancelled }
      [] from = JobStatusTranscribing ->
            to \in { JobStatusExporting, JobStatusFailed, JobStatusCancelled }
      [] from = JobStatusExporting ->
            to \in { JobStatusDone, JobStatusFailed, JobStatusCancelled }
      [] from \in { JobStatusDone, JobStatusFailed, JobStatusCancelled } ->
            to \in { JobStatusPreprocessing, JobStatusIdle }
      [] OTHER -> FALSE

\* Each Manager method is one critical section under m.mu: the operator gives
\* the record after the call and the error returned.
\* Mutant: the running check forgets the exporting stage.
ManagerStart_AllowsExporting(cur, jobID) ==
    IF cur.Status \in { JobStatusPreprocessing, JobStatusTranscribing }
    THEN [job |-> cur, err |-> ErrJobAlreadyRunning]
    ELSE [job |-> Job(jobID, JobStatusPreprocessing), err |-> NilErr]

\* Mutant: a rejected Start still replaces the record.
ManagerStart_RejectsButReplaces(cur, jobID) ==
    [job |-> Job(jobID, JobStatusPreprocessing),
     err |-> IF isRunning(cur.Status) THEN ErrJobAlreadyRunning ELSE NilErr]

ManagerStart(cur, jobID) ==
    IF isRunning(cur.Status)
    THEN [job |-> cur, err |-> ErrJobAlreadyRunning]
    ELSE [job |-> Job(jobID, JobStatusPreprocessing), err |-> NilErr]

\* Mutant: a rejected transition is applied all the same.
ManagerTransition_RejectsButApplies(cur, status) ==
    IF cur.ID = EmptyID /\ status # JobStatusIdle
    THEN [job |-> cur, err |-> ErrNoActiveJob]
    ELSE IF status = cur.Status
    THEN [job |-> cur, err |-> NilErr]
    ELSE [job |-> Job(cur.ID, status),
          err |-> IF isValidTransition(cur.Status, status)
                  THEN NilErr ELSE ErrInvalidTransition]

\* Mutant: the same-status shortcut is missing.
ManagerTransition_NoSelfCheck(cur, status) ==
    IF cur.ID = EmptyID /\ status # JobStatusIdle
    THEN [job |-> cur, err |-> ErrNoActiveJob]
    ELSE IF ~isValidTransition(cur.Status, status)
    THEN [job |-> cur, err |-> ErrInvalidTransition]
    ELSE [job |-> Job(cur.ID, status), err |-> NilErr]

\* Mutant: the check for a missing job id is missing.
ManagerTransition_NoUsageCheck(cur, status) ==
    IF status = cur.Status
    THEN [job |-> cur, err |-> NilErr]
    ELSE IF ~isValidTransition(cur.Status, status)
    THEN [job |-> cur, err |-> ErrInvalidTransition]
    ELSE [job |-> Job(cur.ID, status), err |-> NilErr]

ManagerTransition(cur, status) ==
    IF cur.ID = EmptyID /\ status # JobStatusIdle
    THEN [job |-> cur, err |-> ErrNoActiveJob]
    ELSE IF status = cur.Status
    THEN [job |-> cur, err |-> NilErr]
    ELSE IF ~isValidTransition(cur.Status, status)
    THEN [job |-> cur, err |-> ErrInvalidTransition]
    ELSE [job |-> Job(cur.ID, status), err |-> NilErr]

\* Mutant: a successful Cancel drops the job id.
ManagerCancel_ClearsID(cur) ==
    IF ~isRunning(cur.Status)
    THEN [job |-> cur, err |-> ErrNoRunningJob]
    ELSE [job |-> Job(EmptyID, JobStatusCancelled), err |-> NilErr]

\* Mutant: Cancel does not look at the status.
ManagerCancel_AnyStatus(cur) ==
    [job |-> Job(cur.ID, JobStatusCancelled), err |-> NilErr]

ManagerCancel(cur) ==
    IF ~isRunning(cur.Status)
    THEN [job |-> cur, err |-> ErrNoRunningJob]
    ELSE [job |-> Job(cur.ID, JobStatusCancelled), err |-> NilErr]

ManagerReset == Job(EmptyID, JobStatusIdle)

(***************************************************************************)
(* jobs.EventBus                                                           *)
(***************************************************************************)
EventTypeStatus == "status"
EventTypeLog == "log"
EventTypeResult == "result"
EventTypeError == "error"

EventType == { EventTypeStatus, EventTypeLog, EventTypeResult, EventTypeError }

\* time.Time: the zero value, or an instant; time.Now() is the instant "now".
ZeroTime == "zero"
TimeNow == "now"

DefaultMaxEvents == 500
AppMaxEvents == 1000

\* jobs.Event with the fields the orchestration reads or writes.
Event(seq, ts, jobID, type, status, message, command, textPath) ==
    [Seq |-> seq, Timestamp |-> ts, JobID |-> jobID, Type |-> type,
     Status |-> status, Message |-> message, Command |-> command,
     TextPath |-> textPath]

NewEventBus(n) == IF n <= 0 THEN DefaultMaxEvents ELSE n

\* Mutant: the oldest event is kept, and those after it are dropped instead.
DropFirst_KeepsOldest(s, trim) ==
    <<s[1]>> \o SubSeq(s, trim + 2, Len(s))

\* b.events[trim:], copied.
DropFirst(s, trim) == SubSeq(s, trim + 1, Len(s))

\* Publish, one critical section under b.mu: the sequence counter and the
\* retained events after the call, and the finalized event it returns.
\* Mutant: a Seq the caller supplied is kept.
Finalize_KeepsCallerSeq(seq, event) ==
    [event EXCEPT !.Seq = IF event.Seq # 0 THEN event.Seq ELSE seq,
                  !.Timestamp = IF event.Timestamp = ZeroTime THEN TimeNow
                                ELSE event.Timestamp]

Finalize(seq, event) ==
    [event EXCEPT !.Seq = seq,
                  !.Timestamp = IF event.Timestamp = ZeroTime THEN TimeNow
                                ELSE event.Timestamp]

\* Mutant: the newest events are dropped instead of the oldest.
Retain_DropsNewest(evs, cap) ==
    IF Len(evs) > cap THEN SubSeq(evs, 1, cap) ELSE evs

Retain(evs, cap) ==
    IF Len(evs) > cap THEN DropFirst(evs, Len(evs) - cap) ELSE evs

\* Mutant: the slice is trimmed to one event less than the capacity.
Publish_RetainsOneLess(seq, cap, evs, event) ==
    LET out == Finalize(seq + 1, event) IN
    [nextSeq |-> seq + 1,
     events |-> Retain(Append(evs, out), cap - 1),
     out |-> out]

Publish(seq, cap, evs, event) ==
    LET out == Finalize(seq + 1, event) IN
    [nextSeq |-> seq + 1,
     events |-> Retain(Append(evs, out), cap),
     out |-> out]

\* Since, under b.mu.RLock: the retained events with Seq > seq, in slice order.
\* Mutant: the comparison is not strict.
Since_Inclusive(evs, seq) ==
    IF Len(evs) = 0 THEN <<>>
    ELSE SelectSeq(evs, LAMBDA e : e.Seq >= seq)

Since(evs, seq) ==
    IF Len(evs) = 0 THEN <<>>
    ELSE SelectSeq(evs, LAMBDA e : e.Seq > seq)

\* The observer's record of one EventBus call: the method, its argument (the
\* caller's Seq field for Publish, the seq parameter for Since), the retained
\* events and the counter before the call, and what the call returned.
BusCalled(op, seq, evs, counter, out) ==
    [op |-> op, seq |-> seq, events |-> evs, nextSeq |-> counter, out |-> out]

NoBusCall == BusCalled("none", 0, <<>>, 0, <<>>)

\* The observer's record of one Manager call: the method, its argument (a job
\* id for Start, a status for Transition), the record before it and its error.
Called(op, id, to, before, err) ==
    [op |-> op, id |-> id, to |-> to, before |-> before, err |-> err]

NoCall == Called("none", EmptyID, "none", NewManager, NilErr)

(***************************************************************************)
(* transcribe: strings.  A Go string is modelled by the sequence of its    *)
(* bytes, each byte a one-character string; the inputs are ASCII.          *)
(***************************************************************************)
UpperLetters ==
    <<"A", "B", "C", "D", "E", "F", "G", "H", "I", "J", "K", "L", "M",
      "N", "O", "P", "Q", "R", "S", "T", "U", "V", "W", "X", "Y", "Z">>

LowerLetters ==
    <<"a", "b", "c", "d", "e", "f", "g", "h", "i", "j", "k", "l", "m",
      "n", "o", "p", "q", "r", "s", "t", "u", "v", "w", "x", "y", "z">>

Digits == <<"0", "1", "2", "3", "4", "5", "6", "7", "8", "9">>

IndexIn(letters, c) == CHOOSE i \in 1 .. Len(letters) : letters[i] = c

IsIn(letters, c) == \E i \in 1 .. Len(letters) : letters[i] = c

\* The byte value of a character, which is what Go compares strings by.
ByteOf(c) ==
    CASE c = " " -> 32
      [] c = "*" -> 42
      [] c = "-" -> 45
      [] c = "." -> 46
      [] c = "/" -> 47
      [] c = ":" -> 58
      [] c = "_" -> 95
      [] IsIn(Digits, c) -> 47 + IndexIn(Digits, c)
      [] IsIn(UpperLetters, c) -> 64 + IndexIn(UpperLetters, c)
      [] IsIn(LowerLetters, c) -> 96 + IndexIn(LowerLetters, c)

\* s < t for Go strings: byte-wise lexicographic order.
RECURSIVE StringLess(_, _)
StringLess(s, t) ==
    IF t = <<>> THEN FALSE
    ELSE IF s = <<>> THEN TRUE
    ELSE IF ByteOf(Head(s)) # ByteOf(Head(t)) THEN ByteOf(Head(s)) < ByteOf(Head(t))
    ELSE StringLess(Tail(s), Tail(t))

\* sort.Strings, on a collection without duplicates.
RECURSIVE SortStrings(_)
SortStrings(names) ==
    IF names = {} THEN <<>>
    ELSE LET first == CHOOSE n \in names : \A m \in names \ { n } : StringLess(n, m) IN
         <<first>> \o SortStrings(names \ { first })

IsSpace(c) == c = " "

\* strings.TrimSpace
RECURSIVE TrimSpace(_)
TrimSpace(s) ==
    IF s = <<>> THEN s
    ELSE IF IsSpace(Head(s)) THEN TrimSpace(Tail(s))
    ELSE IF IsSpace(s[Len(s)]) THEN TrimSpace(SubSeq(s, 1, Len(s) - 1))
    ELSE s

\* strings.ToLower
ToLower(s) ==
    [i \in 1 .. Len(s) |->
        IF IsIn(UpperLetters, s[i]) THEN LowerLetters[IndexIn(UpperLetters, s[i])] ELSE s[i]]

\* strings.EqualFold, which on ASCII is equality up to the case of letters.
EqualFold(s, t) == ToLower(s) = ToLower(t)

HasSuffix(s, suffix) ==
    /\ Len(suffix) <= Len(s)
    /\ SubSeq(s, Len(s) - Len(suffix) + 1, Len(s)) = suffix

HasPrefix(s, prefix) ==
    /\ Len(prefix) <= Len(s)
    /\ SubSeq(s, 1, Len(prefix)) = prefix

\* strings.TrimSuffix
TrimSuffix(s, suffix) ==
    IF HasSuffix(s, suffix) THEN SubSeq(s, 1, Len(s) - Len(suffix)) ELSE s

Separator == "/"

\* filepath.Ext: the suffix beginning at the final dot of the final element.
Ext(path) ==
    LET dots == { i \in 1 .. Len(path) :
                    /\ path[i] = "."
                    /\ \A k \in i .. Len(path) : path[k] # Separator } IN
    IF dots = {} THEN <<>>
    ELSE LET i == CHOOSE d \in dots : \A e \in dots : e <= d IN
         SubSeq(path, i, Len(path))

\* filepath.Base: the last element of the path, trailing separators removed.
RECURSIVE Base(_)
Base(path) ==
    IF path = <<>> THEN <<".">>
    ELSE IF path[Len(path)] = Separator
         THEN IF Len(path) = 1 THEN <<Separator>>
              ELSE Base(SubSeq(path, 1, Len(path) - 1))
    ELSE LET seps == { i \in 1 .. Len(path) : path[i] = Separator } IN
         IF seps = {} THEN path
         ELSE LET i == CHOOSE d \in seps : \A e \in seps : e <= d IN
              SubSeq(path, i + 1, Len(path))

\* filepath.Join of two clean elements: empty elements are ignored.
Join(dir, name) ==
    IF dir = <<>> THEN name
    ELSE IF name = <<>> THEN dir
    ELSE dir \o <<Separator>> \o name

(***************************************************************************)
(* transcribe: the pure helpers of pipeline.go                             *)
(***************************************************************************)
\* Mutant: "auto" is recognised in lower case only.
normalizeLanguage_CaseSensitive(raw) ==
    LET lang == TrimSpace(raw) IN
    IF lang = <<>> \/ lang = <<"a", "u", "t", "o">> THEN <<>> ELSE lang

\* normalizeLanguage maps "auto" and the empty language to no CLI override.
normalizeLanguage(raw) ==
    LET lang == TrimSpace(raw) IN
    IF lang = <<>> \/ EqualFold(lang, <<"a", "u", "t", "o">>) THEN <<>> ELSE lang

LanguageFlag == <<"-", "l">>

buildFFmpegArgs(inputPath, outPath) ==
    << <<"-", "h", "i", "d", "e", "_", "b", "a", "n", "n", "e", "r">>,
       <<"-", "n", "o", "s", "t", "d", "i", "n">>,
       <<"-", "y">>,
       <<"-", "i">>, inputPath,
       <<"-", "v", "n">>,
       <<"-", "a", "c">>, <<"1">>,
       <<"-", "a", "r">>, <<"1", "6", "0", "0", "0">>,
       <<"-", "c", ":", "a">>, <<"p", "c", "m", "_", "s", "1", "6", "l", "e">>,
       outPath >>

buildWhisperArgs(modelPath, audioPath, textBase, language) ==
    LET args == << <<"-", "m">>, modelPath,
                   <<"-", "f">>, audioPath,
                   <<"-", "o", "f">>, textBase,
                   <<"-", "o", "t", "x", "t">> >>
        lang == normalizeLanguage(language) IN
    IF lang # <<>> THEN args \o <<LanguageFlag, lang>> ELSE args

TxtExt == <<".", "t", "x", "t">>

\* transcriptFileName builds the output text file name from the input media name.
transcriptFileName(inputPath) ==
    LET base == Base(inputPath)
        name == TrimSpace(TrimSuffix(base, Ext(base))) IN
    IF name = <<>> \/ name = <<".">> \/ name = <<Separator>>
    THEN <<"t", "r", "a", "n", "s", "c", "r", "i", "p", "t">> \o TxtExt
    ELSE name \o TxtExt

\* os.DirEntry: Name() and IsDir()
DirEntry(name, isDir) == [Name |-> name, IsDir |-> isDir]

ModelExts == { <<".", "b", "i", "n">>, <<".", "g", "g", "u", "f">> }

\* The file system: the paths of the files and of the directories that exist,
\* and the entries os.ReadDir lists in the model directory.
Disk(files, dirs, entries) == [files |-> files, dirs |-> dirs, entries |-> entries]

NoStat == "none"
StatFile == "file"
StatDir == "dir"

\* p.stat(name): what is at the path; NoStat stands for the error.
Stat(d, name) ==
    IF name \in d.dirs THEN StatDir
    ELSE IF name \in d.files THEN StatFile
    ELSE NoStat

\* Mutant: the subdirectories of the model directory are not skipped.
resolveModelPath_KeepsDirs(rawPath, d, readable) ==
    LET modelPath == TrimSpace(rawPath)
        modelNames == { e.Name : e \in { entry \in d.entries :
                                           ToLower(Ext(entry.Name)) \in ModelExts } } IN
    IF modelPath = <<>> THEN [path |-> <<>>, err |-> "model path is required"]
    ELSE IF Stat(d, modelPath) = NoStat
         THEN [path |-> <<>>, err |-> "cannot access model path"]
    ELSE IF Stat(d, modelPath) # StatDir THEN [path |-> modelPath, err |-> ""]
    ELSE IF ~readable THEN [path |-> <<>>, err |-> "cannot read model directory"]
    ELSE IF modelNames = {} THEN [path |-> <<>>, err |-> "no .bin or .gguf model files found"]
    ELSE [path |-> Join(modelPath, SortStrings(modelNames)[1]), err |-> ""]

\* resolveModelPath returns the model file path from a file or directory input;
\* readable is whether p.readDir succeeds.
resolveModelPath(rawPath, d, readable) ==
    LET modelPath == TrimSpace(rawPath)
        modelNames == { e.Name : e \in { entry \in d.entries :
                                           /\ ~entry.IsDir
                                           /\ ToLower(Ext(entry.Name)) \in ModelExts } } IN
    IF modelPath = <<>> THEN [path |-> <<>>, err |-> "model path is required"]
    ELSE IF Stat(d, modelPath) = NoStat
         THEN [path |-> <<>>, err |-> "cannot access model path"]
    ELSE IF Stat(d, modelPath) # StatDir THEN [path |-> modelPath, err |-> ""]
    ELSE IF ~readable THEN [path |-> <<>>, err |-> "cannot read model directory"]
    ELSE IF modelNames = {} THEN [path |-> <<>>, err |-> "no .bin or .gguf model files found"]
    ELSE [path |-> Join(modelPath, SortStrings(modelNames)[1]), err |-> ""]

(***************************************************************************)
(* transcribe: the state of one Pipeline.Run call                          *)
(***************************************************************************)
Request(inputPath, modelPath, language, outputDir) ==
    [InputPath |-> inputPath, ModelPath |-> modelPath, Language |-> language,
     OutputDir |-> outputDir]

\* CommandLog; Stdout and Stderr are left out.
CommandLog(command, args, exitCode) ==
    [Command |-> command, Args |-> args, ExitCode |-> exitCode]

NoCommandLog == CommandLog("", <<>>, 0)

\* *PipelineError {Stage, Message, CommandLog}; the nil error has Stage "".
StageError(stage, message, log) ==
    [Stage |-> stage, Message |-> message, CommandLog |-> log]

NilStageError == StageError("", "", NoCommandLog)

\* Result; the transcript text is left out.
Result(audioPath, textPath, logs, tempDir) ==
    [PreprocessedAudioPath |-> audioPath, TextPath |-> textPath, Logs |-> logs,
     tempDir |-> tempDir]

ZeroResult == Result(<<>>, <<>>, <<>>, <<>>)

\* The frame of Pipeline.Run: its position, its locals, and what it returned.
\* releases counts the caller's Result.Cleanup calls.
RunFrame(pc, modelPath, tempDir, log, whisperLog, runErr, result, err, releases) ==
    [pc |-> pc, modelPath |-> modelPath, tempDir |-> tempDir, log |-> log,
     whisperLog |-> whisperLog, runErr |-> runErr, result |-> result, err |-> err,
     releases |-> releases]

NoRun ==
    RunFrame("none", <<>>, <<>>, NoCommandLog, NoCommandLog, "", ZeroResult,
             NilStageError, 0)

\* One entry of the observer's list: a callback, a command, a removal, a release.
PipelineCall(op, arg, log, err) == [op |-> op, arg |-> arg, log |-> log, err |-> err]

\* No Pipeline.Run call is made (the specifications of the other components).
PipelineIdle ==
    /\ req = Request(<<>>, <<>>, <<>>, <<>>)
    /\ disk = Disk({}, {}, {})
    /\ run = NoRun
    /\ calls = <<>>

(***************************************************************************)
(* bootstrap.App: state                                                    *)
(***************************************************************************)
JobIDs == 1 .. MaxRaceJobs

NoCancel == 0

TerminalStatuses == { JobStatusDone, JobStatusFailed, JobStatusCancelled }

\* The error of Pipeline.Run as runTranscriptionJob reads it: whether
\* errors.Is(err, context.Canceled) holds (kind) and CommandLog.Command.
PipelineError(kind, command) == [kind |-> kind, command |-> command]

NoError == PipelineError("none", "")

\* One runTranscriptionJob goroutine: its position and the error Run returned.
TaskState(pc, err) == [pc |-> pc, err |-> err]

NoTask == TaskState("none", NoError)

\* One CancelTranscription call: its position and the two locals it read.
CancelFrame(pc, cancelFn, jobID) == [pc |-> pc, cancel |-> cancelFn, activeJobID |-> jobID]

NoCancelCall == CancelFrame("idle", NoCancel, EmptyID)

\* The observer's record of one CancelTranscription call: the token and the job
\* id it read, the Manager record at that moment, and what the nil check decided.
CancelSeen(cancelFn, jobID, job, err) ==
    [cancel |-> cancelFn, activeJobID |-> jobID, job |-> job, err |-> err]

\* The publishers of publishEvent that can run at the same time.
Publishers == { "task", "canceller" }

NoEvent == Event(0, ZeroTime, EmptyID, "none", "", "", "", "")

\* a.runtimeCtx is nil until startup, as in app_test.go: nothing is emitted.
\* A client of JobEvents: the highest seq it has seen (0 before its first poll),
\* the events its polls returned, in order, and the observer's count of the
\* events published since its last poll and whether that count ever exceeded
\* the capacity of the bus.
Reader(sinceSeq, received, pending, within) ==
    [sinceSeq |-> sinceSeq, received |-> received, pending |-> pending, within |-> within]

NoReader == Reader(0, <<>>, 0, TRUE)

PushInit ==
    /\ emitting = [p \in Publishers |-> NoEvent]
    /\ emitted = <<>>
    /\ reader = NoReader

AppInit ==
    /\ activeJobID = EmptyID
    /\ cancel = NoCancel
    /\ ctxDone = {}
    /\ clock = 0
    /\ starter = [j \in JobIDs |-> "none"]
    /\ canceller = NoCancelCall
    /\ cancels = <<>>
    /\ task = [j \in JobIDs |-> NoTask]
    /\ terminals = [j \in JobIDs |-> {}]
    /\ PushInit

Init ==
    /\ current = NewManager
    /\ mgrRet = NoCall
    /\ nextSeq = 0
    /\ maxEvents = NewEventBus(AppMaxEvents)
    /\ events = <<>>
    /\ published = <<>>
    /\ busRet = NoBusCall
    /\ AppInit
    /\ PipelineIdle

\* The observer notes each terminal status a job's Manager record takes.
Noted(job) ==
    IF job # current /\ job.Status \in TerminalStatuses /\ job.ID \in JobIDs
    THEN [terminals EXCEPT ![job.ID] = @ \cup { job.Status }]
    ELSE terminals

\* a.Jobs.<method>: the Manager record changes, nothing else of the Manager does.
JobsBecomes(job) ==
    /\ current' = job
    /\ terminals' = Noted(job)
    /\ UNCHANGED mgrRet

JobsUntouched == UNCHANGED <<current, mgrRet, terminals>>

\* publishEvent: a.events.Publish(event).  The runtime context is nil, as in
\* app_test.go, so nothing is emitted to the window.
publishEvent(event) ==
    LET r == Publish(nextSeq, maxEvents, events, event) IN
    /\ nextSeq < MaxSeq
    /\ nextSeq' = r.nextSeq
    /\ events' = r.events
    /\ UNCHANGED <<maxEvents, published, busRet, pushVars, pipeVars>>

publishStatus(jobID, status, message) ==
    publishEvent(Event(0, ZeroTime, jobID, EventTypeStatus, status, message, "", ""))

BusUntouched == UNCHANGED <<busVars, pushVars, pipeVars>>

mapStageToStatus(stage) ==
    CASE stage = "preprocessing" -> [status |-> JobStatusPreprocessing, ok |-> TRUE]
      [] stage = "transcribing" -> [status |-> JobStatusTranscribing, ok |-> TRUE]
      [] stage = "exporting" -> [status |-> JobStatusExporting, ok |-> TRUE]
      [] OTHER -> [status |-> "", ok |-> FALSE]

(***************************************************************************)
(* App.StartTranscription                                                  *)
(***************************************************************************)
\* a.Jobs.Start(jobID) with a fresh clock reading; on error the call returns it.
\* maxCalls bounds the number of StartTranscription calls of a behaviour.
StartJobsStart(maxCalls) ==
    /\ clock < maxCalls
    /\ LET jobID == clock + 1
           r == ManagerStart(current, jobID) IN
       /\ r.err = NilErr
       /\ JobsBecomes(r.job)
       /\ clock' = jobID
       /\ starter' = [starter EXCEPT ![jobID] = "record"]
    /\ BusUntouched
    /\ UNCHANGED <<activeJobID, cancel, ctxDone, canceller, cancels, task>>

\* a.Jobs.Start(jobID) fails: the call returns the error and does nothing else.
StartRejected(maxCalls) ==
    /\ clock < maxCalls
    /\ LET jobID == clock + 1
           r == ManagerStart(current, jobID) IN
       /\ r.err # NilErr
       /\ JobsBecomes(r.job)
       /\ clock' = jobID
       /\ starter' = [starter EXCEPT ![jobID] = "rejected"]
    /\ BusUntouched
    /\ UNCHANGED <<activeJobID, cancel, ctxDone, canceller, cancels, task>>

\* a.activeJobID = jobID; a.cancel = cancel  (under a.mu)
StartRecord(j) ==
    /\ starter[j] = "record"
    /\ activeJobID' = j
    /\ cancel' = j
    /\ starter' = [starter EXCEPT ![j] = "publish"]
    /\ JobsUntouched
    /\ BusUntouched
    /\ UNCHANGED <<ctxDone, clock, canceller, cancels, task>>

\* a.publishStatus(jobID, preprocessing, "Job started"), then
\* go a.runTranscriptionJob(ctx, jobID, inputPath, settings): the go statement
\* touches nothing shared, so it joins the publication.
StartPublish(j) ==
    /\ starter[j] = "publish"
    /\ publishStatus(j, JobStatusPreprocessing, "Job started")
    /\ task' = [task EXCEPT ![j] = TaskState("run", NoError)]
    /\ starter' = [starter EXCEPT ![j] = "return"]
    /\ JobsUntouched
    /\ UNCHANGED <<activeJobID, cancel, ctxDone, clock, canceller, cancels>>

\* return a.Jobs.Current(), nil: a read of the Manager record that may come at
\* any moment after the goroutine was started.  It changes nothing; the value
\* the call returns is `current` in a state where the call stands at "return".
StartReturn(j) ==
    /\ starter[j] = "return"
    /\ UNCHANGED vars

(***************************************************************************)
(* App.CancelTranscription (one call at a time)                            *)
(***************************************************************************)
\* cancel := a.cancel; activeJobID := a.activeJobID (under a.mu); nil check.
CancelRead ==
    /\ canceller.pc = "idle"
    /\ cancel # NoCancel
    /\ Len(cancels) < MaxCancels
    /\ cancels' = Append(cancels, CancelSeen(cancel, activeJobID, current, NilErr))
    /\ canceller' = CancelFrame("fire", cancel, activeJobID)
    /\ JobsUntouched
    /\ BusUntouched
    /\ UNCHANGED <<activeJobID, cancel, ctxDone, clock, starter, task>>

\* cancel == nil: return jobs.ErrNoRunningJob
CancelRejected ==
    /\ canceller.pc = "idle"
    /\ cancel = NoCancel
    /\ Len(cancels) < MaxCancels
    /\ cancels' = Append(cancels, CancelSeen(cancel, activeJobID, current, ErrNoRunningJob))
    /\ JobsUntouched
    /\ BusUntouched
    /\ UNCHANGED <<activeJobID, cancel, ctxDone, clock, starter, canceller, task>>

\* cancel()
CancelFire ==
    /\ canceller.pc = "fire"
    /\ ctxDone' = ctxDone \cup { canceller.cancel }
    /\ canceller' = [canceller EXCEPT !.pc = "jobs"]
    /\ JobsUntouched
    /\ BusUntouched
    /\ UNCHANGED <<activeJobID, cancel, clock, starter, cancels, task>>

\* a.Jobs.Cancel(); ErrNoRunningJob is tolerated, and Cancel returns no other error.
CancelJobs ==
    /\ canceller.pc = "jobs"
    /\ JobsBecomes(ManagerCancel(current).job)
    /\ canceller' = [canceller EXCEPT !.pc = "publish"]
    /\ BusUntouched
    /\ UNCHANGED <<activeJobID, cancel, ctxDone, clock, starter, cancels, task>>

\* if activeJobID != "" { publishStatus(activeJobID, cancelled, ...) }; return nil
\* Mutant: the cancellation request is not published.
CancelPublish_Silent ==
    /\ canceller.pc = "publish"
    /\ BusUntouched
    /\ canceller' = NoCancelCall
    /\ JobsUntouched
    /\ UNCHANGED <<activeJobID, cancel, ctxDone, clock, starter, cancels, task>>

CancelPublish ==
    /\ canceller.pc = "publish"
    /\ IF canceller.activeJobID # EmptyID
       THEN publishStatus(canceller.activeJobID, JobStatusCancelled, "Cancellation requested")
       ELSE BusUntouched
    /\ canceller' = NoCancelCall
    /\ JobsUntouched
    /\ UNCHANGED <<activeJobID, cancel, ctxDone, clock, starter, cancels, task>>

(***************************************************************************)
(* App.runTranscriptionJob, with transcribe.Pipeline.Run inlined.          *)
(* Steps that touch the Manager or the bus are one action each; the code   *)
(* between two of them is local to the goroutine and joins a step.         *)
(***************************************************************************)
At(j, pc) == task[j].pc = pc

Goto(j, pc) == task' = [task EXCEPT ![j].pc = pc]

TaskOnly == UNCHANGED <<activeJobID, cancel, ctxDone, clock, starter, canceller, cancels>>

ffmpegPath == "ffmpeg"
whisperPath == "whisper.cpp"
TextPath == "out/clip.txt"

\* Pipeline.Run up to mkdirTemp: input path, model path, output directory and
\* temporary workspace; a failure returns a PipelineError with no CommandLog
\* before any callback is made.
TaskValidate(j) ==
    /\ At(j, "run")
    /\ \/ task' = [task EXCEPT ![j] = TaskState("stagePre", NoError)]
       \/ task' = [task EXCEPT ![j] = TaskState("failed", PipelineError("fail", ""))]
    /\ JobsUntouched
    /\ BusUntouched
    /\ TaskOnly

\* emitStage(req.OnStage, stage): OnStage maps the stage and calls Transition;
\* the status event is published only when Transition returned nil.
\* Mutant: the status event is published whatever Transition returned.
TaskStage_PublishesAnyway(j, pc, stage, pubPc, nextPc) ==
    /\ At(j, pc)
    /\ JobsBecomes(ManagerTransition(current, mapStageToStatus(stage).status).job)
    /\ Goto(j, pubPc)
    /\ BusUntouched
    /\ TaskOnly

TaskStage(j, pc, stage, pubPc, nextPc) ==
    /\ At(j, pc)
    /\ LET m == mapStageToStatus(stage)
           r == ManagerTransition(current, m.status) IN
       IF ~m.ok
       THEN JobsUntouched /\ Goto(j, nextPc)
       ELSE /\ JobsBecomes(r.job)
            /\ Goto(j, IF r.err = NilErr THEN pubPc ELSE nextPc)
    /\ BusUntouched
    /\ TaskOnly

TaskStagePublish(j, pc, stage, nextPc) ==
    /\ At(j, pc)
    /\ publishStatus(j, mapStageToStatus(stage).status, "Running " \o stage \o " stage")
    /\ Goto(j, nextPc)
    /\ JobsUntouched
    /\ TaskOnly

\* What execRunner.Run (exec.CommandContext(ctx, ...).Run()) can return once the
\* process runs: nil, a tool failure, or an error wrapping context.Canceled, the
\* last only once ctx has been cancelled.
RunOutcomes(j) ==
    { "nil", "exit" } \cup (IF j \in ctxDone THEN { "canceled" } ELSE {})

\* With ctx already cancelled the command is never started: Run returns at once
\* with ctx.Err(), or with the error of looking the executable up.
RefusedOutcomes == { "canceled", "exit" }

RunError(out, command) ==
    PipelineError(IF out = "canceled" THEN "cancel" ELSE "fail", command)

CommandLogEvent(j, command) ==
    Event(0, ZeroTime, j, EventTypeLog, "", "Command completed", command, "")

\* p.runner.Run(ctx, command, args...) is called.  A cancelled ctx makes it
\* return an error at once; emitLog and the error return follow as below.
TaskCommandStart(j, pc, command, waitPc) ==
    /\ At(j, pc)
    /\ IF j \in ctxDone
       THEN /\ publishEvent(CommandLogEvent(j, command))
            /\ \E out \in RefusedOutcomes :
                  task' = [task EXCEPT ![j] = TaskState("failed", RunError(out, command))]
       ELSE /\ BusUntouched
            /\ Goto(j, waitPc)
    /\ JobsUntouched
    /\ TaskOnly

\* p.runner.Run returns; emitLog publishes the command's log; then Run either
\* goes on, or returns an error carrying that log: the runner's error, or the
\* missing output file.
TaskCommandReturn(j, pc, command, nextPc) ==
    /\ At(j, pc)
    /\ publishEvent(CommandLogEvent(j, command))
    /\ \E out \in RunOutcomes(j), present \in BOOLEAN :
          task' = [task EXCEPT ![j] =
                     IF out # "nil"
                     THEN TaskState("failed", RunError(out, command))
                     ELSE IF ~present
                     THEN TaskState("failed", PipelineError("fail", command))
                     ELSE TaskState(nextPc, NoError)]
    /\ JobsUntouched
    /\ TaskOnly

\* p.readFile(textPath) fails and Run returns the error, or Run returns the
\* Result and result.Cleanup() returns nil or an error.
TaskExport(j) ==
    /\ At(j, "export")
    /\ \/ task' = [task EXCEPT ![j] =
                     TaskState("failed", PipelineError("fail", whisperPath))]
       \/ task' = [task EXCEPT ![j] = TaskState("toDone", NoError)]
       \/ task' = [task EXCEPT ![j] = TaskState("pubCleanup", NoError)]
    /\ JobsUntouched
    /\ BusUntouched
    /\ TaskOnly

\* Mutant: a cleanup failure is treated as a pipeline failure.
TaskPublishCleanupError_Fatal(j) ==
    /\ At(j, "pubCleanup")
    /\ publishEvent(Event(0, ZeroTime, j, EventTypeError, "",
                          "cleanup temporary files", "", ""))
    /\ task' = [task EXCEPT ![j] = TaskState("failed", PipelineError("fail", ""))]
    /\ JobsUntouched
    /\ TaskOnly

TaskPublishCleanupError(j) ==
    /\ At(j, "pubCleanup")
    /\ publishEvent(Event(0, ZeroTime, j, EventTypeError, "",
                          "cleanup temporary files", "", ""))
    /\ Goto(j, "toDone")
    /\ JobsUntouched
    /\ TaskOnly

\* if err := a.Jobs.Transition(done); err == nil { publishStatus(done) }
TaskTransitionDone(j) ==
    /\ At(j, "toDone")
    /\ LET r == ManagerTransition(current, JobStatusDone) IN
       /\ JobsBecomes(r.job)
       /\ Goto(j, IF r.err = NilErr THEN "pubDone" ELSE "pubResult")
    /\ BusUntouched
    /\ TaskOnly

TaskPublishDone(j) ==
    /\ At(j, "pubDone")
    /\ publishStatus(j, JobStatusDone, "Job completed")
    /\ Goto(j, "pubResult")
    /\ JobsUntouched
    /\ TaskOnly

\* Mutant: the result event does not carry the transcript path.
TaskPublishResult_NoPath(j) ==
    /\ At(j, "pubResult")
    /\ publishEvent(Event(0, ZeroTime, j, EventTypeResult, JobStatusDone,
                          "Transcript exported", "", ""))
    /\ Goto(j, "clear")
    /\ JobsUntouched
    /\ TaskOnly

TaskPublishResult(j) ==
    /\ At(j, "pubResult")
    /\ publishEvent(Event(0, ZeroTime, j, EventTypeResult, JobStatusDone,
                          "Transcript exported", "", TextPath))
    /\ Goto(j, "clear")
    /\ JobsUntouched
    /\ TaskOnly

\* Run returned an error: _ = a.Jobs.Transition(cancelled) when it wraps
\* context.Canceled, _ = a.Jobs.Transition(failed) otherwise.
TaskTransitionError(j) ==
    /\ At(j, "failed")
    /\ LET cancelled == task[j].err.kind = "cancel"
           to == IF cancelled THEN JobStatusCancelled ELSE JobStatusFailed IN
       /\ JobsBecomes(ManagerTransition(current, to).job)
       /\ Goto(j, IF cancelled THEN "pubCancelled" ELSE "pubFailed")
    /\ BusUntouched
    /\ TaskOnly

\* Mutant: the cancellation branch publishes nothing.
TaskPublishCancelled_Silent(j) ==
    /\ At(j, "pubCancelled")
    /\ Goto(j, "clear")
    /\ BusUntouched
    /\ JobsUntouched
    /\ TaskOnly

TaskPublishCancelled(j) ==
    /\ At(j, "pubCancelled")
    /\ publishStatus(j, JobStatusCancelled, "Job cancelled")
    /\ Goto(j, "clear")
    /\ JobsUntouched
    /\ TaskOnly

TaskPublishFailed(j) ==
    /\ At(j, "pubFailed")
    /\ publishStatus(j, JobStatusFailed, "Job failed")
    /\ Goto(j, "pubError")
    /\ JobsUntouched
    /\ TaskOnly

TaskPublishError(j) ==
    /\ At(j, "pubError")
    /\ publishEvent(Event(0, ZeroTime, j, EventTypeError, JobStatusFailed,
                          "pipeline error", "", ""))
    /\ Goto(j, IF task[j].err.command # "" THEN "pubReplay" ELSE "clear")
    /\ JobsUntouched
    /\ TaskOnly

TaskPublishReplay(j) ==
    /\ At(j, "pubReplay")
    /\ publishEvent(Event(0, ZeroTime, j, EventTypeLog, "", "Failed command",
                          task[j].err.command, ""))
    /\ Goto(j, "clear")
    /\ JobsUntouched
    /\ TaskOnly

\* a.clearActiveJob(jobID): clears the bookkeeping only if it is still that of jobID.
clearActiveJob(j) ==
    IF activeJobID = j
    THEN activeJobID' = EmptyID /\ cancel' = NoCancel
    ELSE UNCHANGED <<activeJobID, cancel>>

\* a.clearActiveJob(jobID), then the goroutine returns.
TaskClear(j) ==
    /\ At(j, "clear")
    /\ clearActiveJob(j)
    /\ Goto(j, "returned")
    /\ JobsUntouched
    /\ BusUntouched
    /\ UNCHANGED <<ctxDone, clock, starter, canceller, cancels>>

TaskStep(j) ==
    \/ TaskValidate(j)
    \/ TaskStage(j, "stagePre", "preprocessing", "pubPre", "ffmpeg")
    \/ TaskStagePublish(j, "pubPre", "preprocessing", "ffmpeg")
    \/ TaskCommandStart(j, "ffmpeg", ffmpegPath, "ffmpegWait")
    \/ TaskCommandReturn(j, "ffmpegWait", ffmpegPath, "stageTrans")
    \/ TaskStage(j, "stageTrans", "transcribing", "pubTrans", "whisper")
    \/ TaskStagePublish(j, "pubTrans", "transcribing", "whisper")
    \/ TaskCommandStart(j, "whisper", whisperPath, "whisperWait")
    \/ TaskCommandReturn(j, "whisperWait", whisperPath, "stageExp")
    \/ TaskStage(j, "stageExp", "exporting", "pubExp", "export")
    \/ TaskStagePublish(j, "pubExp", "exporting", "export")
    \/ TaskExport(j)
    \/ TaskPublishCleanupError(j)
    \/ TaskTransitionDone(j)
    \/ TaskPublishDone(j)
    \/ TaskPublishResult(j)
    \/ TaskTransitionError(j)
    \/ TaskPublishCancelled(j)
    \/ TaskPublishFailed(j)
    \/ TaskPublishError(j)
    \/ TaskPublishReplay(j)
    \/ TaskClear(j)

StartStep(j) ==
    \/ StartRecord(j)
    \/ StartPublish(j)
    \/ StartReturn(j)

CancelStep ==
    \/ CancelRead
    \/ CancelRejected
    \/ CancelFire
    \/ CancelJobs
    \/ CancelPublish

Next ==
    \/ StartJobsStart(MaxJobs)
    \/ StartRejected(MaxJobs)
    \/ \E j \in JobIDs : StartStep(j)
    \/ CancelStep
    \/ \E j \in JobIDs : TaskStep(j)

Spec == Init /\ [][Next]_vars

(***************************************************************************)
(* ManagerSpec: the Manager driven directly through its exported methods,  *)
(* as manager_test.go does.  Start takes any string, the empty one too.    *)
(***************************************************************************)
StartArgs == 0 .. MaxJobs

ManagerInit ==
    /\ current = NewManager
    /\ mgrRet = NoCall
    /\ nextSeq = 0
    /\ maxEvents = NewEventBus(AppMaxEvents)
    /\ events = <<>>
    /\ published = <<>>
    /\ busRet = NoBusCall
    /\ AppInit
    /\ PipelineIdle

MgrStart ==
    \E jobID \in StartArgs :
        LET r == ManagerStart(current, jobID) IN
        /\ current' = r.job
        /\ mgrRet' = Called("Start", jobID, "none", current, r.err)
        /\ UNCHANGED <<busVars, appVars, pushVars, pipeVars>>

MgrTransition ==
    \E status \in JobStatus :
        LET r == ManagerTransition(current, status) IN
        /\ current' = r.job
        /\ mgrRet' = Called("Transition", EmptyID, status, current, r.err)
        /\ UNCHANGED <<busVars, appVars, pushVars, pipeVars>>

MgrCancel ==
    LET r == ManagerCancel(current) IN
    /\ current' = r.job
    /\ mgrRet' = Called("Cancel", EmptyID, "none", current, r.err)
    /\ UNCHANGED <<busVars, appVars, pushVars, pipeVars>>

MgrReset ==
    /\ current' = ManagerReset
    /\ mgrRet' = Called("Reset", EmptyID, "none", current, NilErr)
    /\ UNCHANGED <<busVars, appVars, pushVars, pipeVars>>

ManagerNext == MgrStart \/ MgrTransition \/ MgrCancel \/ MgrReset

ManagerSpec == ManagerInit /\ [][ManagerNext]_vars

\* The Manager driven by callers that always pass a job id to Start.
MgrStartNonEmpty ==
    \E jobID \in StartArgs \ { EmptyID } :
        LET r == ManagerStart(current, jobID) IN
        /\ current' = r.job
        /\ mgrRet' = Called("Start", jobID, "none", current, r.err)
        /\ UNCHANGED <<busVars, appVars, pushVars, pipeVars>>

ManagerNonEmptyNext == MgrStartNonEmpty \/ MgrTransition \/ MgrCancel \/ MgrReset

ManagerNonEmptySpec == ManagerInit /\ [][ManagerNonEmptyNext]_vars

(***************************************************************************)
(* EventBusSpec: one bus driven directly through Publish and Since, as     *)
(* the event bus tests do, for every capacity argument 0 .. MaxCap.        *)
(***************************************************************************)
CallerSeqs == { 0, 7 }
CallerTimes == { ZeroTime, "caller" }
SinceArgs == -1 .. MaxPublish

EventBusInit ==
    /\ current = NewManager
    /\ mgrRet = NoCall
    /\ nextSeq = 0
    /\ \E n \in 0 .. MaxCap : maxEvents = NewEventBus(n)
    /\ events = <<>>
    /\ published = <<>>
    /\ busRet = NoBusCall
    /\ AppInit
    /\ PipelineIdle

BusPublish ==
    /\ nextSeq < MaxPublish
    /\ \E seq \in CallerSeqs, ts \in CallerTimes :
          LET r == Publish(nextSeq, maxEvents, events,
                           Event(seq, ts, EmptyID, EventTypeStatus, "", "", "", "")) IN
          /\ nextSeq' = r.nextSeq
          /\ events' = r.events
          /\ published' = Append(published, r.out)
          /\ busRet' = BusCalled("Publish", seq, events, nextSeq, <<r.out>>)
    /\ UNCHANGED <<maxEvents, mgrVars, appVars, pushVars, pipeVars>>

BusSince ==
    /\ \E seq \in SinceArgs :
          busRet' = BusCalled("Since", seq, events, nextSeq, Since(events, seq))
    /\ UNCHANGED <<nextSeq, maxEvents, events, published, mgrVars, appVars, pushVars, pipeVars>>

EventBusNext == BusPublish \/ BusSince

EventBusSpec == EventBusInit /\ [][EventBusNext]_vars

(***************************************************************************)
(* PushSpec: App.publishEvent with a.runtimeCtx set (after startup), called *)
(* by the two publishers that run at the same time, the pipeline task and  *)
(* a CancelTranscription caller, for one job; a reader calls JobEvents.    *)
(***************************************************************************)
PushJob == 1

PushStatuses == { JobStatusTranscribing, JobStatusCancelled }

\* published := a.events.Publish(event)
PushPublish(p) ==
    /\ emitting[p] = NoEvent
    /\ nextSeq < MaxPublish
    /\ \E status \in PushStatuses :
          LET r == Publish(nextSeq, maxEvents, events,
                           Event(0, ZeroTime, PushJob, EventTypeStatus, status, "", "", "")) IN
          /\ nextSeq' = r.nextSeq
          /\ events' = r.events
          /\ published' = Append(published, r.out)
          /\ emitting' = [emitting EXCEPT ![p] = r.out]
    /\ UNCHANGED <<maxEvents, busRet, emitted, reader, mgrVars, appVars, pipeVars>>

\* ctx := a.runtimeCtx (under a.mu); wailsruntime.EventsEmit(ctx, "job:event", published)
PushEmit(p) ==
    /\ emitting[p] # NoEvent
    /\ emitted' = Append(emitted, emitting[p])
    /\ emitting' = [emitting EXCEPT ![p] = NoEvent]
    /\ UNCHANGED <<reader, busVars, mgrVars, appVars, pipeVars>>

\* App.JobEvents(sinceSeq): a.events.Since(sinceSeq)
PushJobEvents ==
    /\ \E seq \in SinceArgs :
          busRet' = BusCalled("Since", seq, events, nextSeq, Since(events, seq))
    /\ UNCHANGED <<nextSeq, maxEvents, events, published, mgrVars, appVars, pushVars, pipeVars>>

PushNext ==
    \/ \E p \in Publishers : PushPublish(p)
    \/ \E p \in Publishers : PushEmit(p)
    \/ PushJobEvents

PushSpec == Init /\ [][PushNext]_vars

(***************************************************************************)
(* A polling client of App.JobEvents on a bus of any capacity: events are  *)
(* published at any moment, and each poll passes the highest seq the       *)
(* client has seen so far.                                                 *)
(***************************************************************************)
\* The highest Seq among the events of evs, or seq when there is none.
HighestSeq(evs, seq) ==
    IF evs = <<>> THEN seq
    ELSE CHOOSE m \in { evs[i].Seq : i \in 1 .. Len(evs) } \cup { seq } :
             \A i \in 1 .. Len(evs) : evs[i].Seq <= m /\ seq <= m

\* a.events.Publish(event), as publishEvent calls it
ReaderPublish ==
    /\ nextSeq < MaxPublish
    /\ \E seq \in CallerSeqs :
          LET r == Publish(nextSeq, maxEvents, events,
                           Event(seq, ZeroTime, PushJob, EventTypeStatus, "", "", "", "")) IN
          /\ nextSeq' = r.nextSeq
          /\ events' = r.events
          /\ published' = Append(published, r.out)
    /\ reader' = [reader EXCEPT !.pending = @ + 1,
                                !.within = @ /\ reader.pending + 1 <= maxEvents]
    /\ UNCHANGED <<maxEvents, busRet, emitting, emitted, mgrVars, appVars, pipeVars>>

\* App.JobEvents(sinceSeq): a.events.Since(sinceSeq); the client appends what it
\* got and keeps the highest seq.
ReaderPoll ==
    /\ LET out == Since(events, reader.sinceSeq) IN
       /\ busRet' = BusCalled("Since", reader.sinceSeq, events, nextSeq, out)
       /\ reader' = Reader(HighestSeq(out, reader.sinceSeq), reader.received \o out,
                           0, reader.within)
    /\ UNCHANGED <<nextSeq, maxEvents, events, published, emitting, emitted,
                   mgrVars, appVars, pipeVars>>

ReaderNext == ReaderPublish \/ ReaderPoll

ReaderSpec == EventBusInit /\ [][ReaderNext]_vars

(***************************************************************************)
(* RaceSpec: the App with one more StartTranscription call than Spec, for  *)
(* the races between calls.  To keep it small, of the task it has the path *)
(* of a pipeline that fails validation (pipeline.go:161-176) only: a task  *)
(* whose pipeline passes validation is followed no further.  Every         *)
(* behaviour of RaceSpec is a behaviour of the App.                         *)
(***************************************************************************)
RaceTaskStep(j) ==
    \/ TaskValidate(j)
    \/ TaskTransitionError(j)
    \/ TaskPublishFailed(j)
    \/ TaskPublishError(j)
    \/ TaskClear(j)

RaceNext ==
    \/ StartJobsStart(MaxRaceJobs)
    \/ StartRejected(MaxRaceJobs)
    \/ \E j \in JobIDs : StartStep(j)
    \/ CancelStep
    \/ \E j \in JobIDs : RaceTaskStep(j)

RaceSpec == Init /\ [][RaceNext]_vars

(***************************************************************************)
(* PipelineSpec: one Pipeline.Run call on a request and a file system      *)
(* drawn from small sets, followed by the caller's Result.Cleanup calls.   *)
(***************************************************************************)
InputPath == <<"a", ".", "m", "p", "4">>
ModelPath == <<"m">>
OutputDir == <<"o", "u", "t">>
TempDir == <<"t", "m", "p">>

InputPaths == { <<>>, <<" ">>, InputPath }
ModelPaths == { <<>>, ModelPath, <<" ">> \o ModelPath }
OutputDirs == { <<>>, OutputDir }

Languages ==
    { <<>>, <<" ">>, <<"a", "u", "t", "o">>, <<"A", "u", "t", "o">>,
      <<" ", "a", "u", "t", "o">>, <<"e", "n">>, <<"e", "n", " ">> }

\* What the model directory may hold: model files, one of them with an upper-case
\* extension, a file that is no model, and a subdirectory named like a model.
Catalogue ==
    { DirEntry(<<"a", ".", "g", "g", "u", "f">>, FALSE),
      DirEntry(<<"z", ".", "b", "i", "n">>, FALSE),
      DirEntry(<<"B", ".", "B", "I", "N">>, FALSE),
      DirEntry(<<"n", ".", "t", "x", "t">>, FALSE),
      DirEntry(<<"d", ".", "b", "i", "n">>, TRUE) }

InitialDisks ==
    { Disk(files, {}, {}) : files \in SUBSET { InputPath, ModelPath } }
    \cup { Disk(files, { ModelPath }, entries) :
             files \in SUBSET { InputPath }, entries \in SUBSET Catalogue }

PipelineStart ==
    /\ req \in { Request(i, m, l, o) :
                   i \in InputPaths, m \in ModelPaths, l \in Languages, o \in OutputDirs }
    /\ disk \in InitialDisks
    /\ run = [NoRun EXCEPT !.pc = "input"]
    /\ calls = <<>>

PipelineOnly == UNCHANGED <<mgrVars, busVars, appVars, pushVars, req>>

PipelineAt(pc) == run.pc = pc

Observed(cs) == calls' = calls \o cs

\* return Result{}, &PipelineError{...}
ReturnError(stage, message, log) ==
    run' = [run EXCEPT !.pc = "returned", !.result = ZeroResult,
                       !.err = StageError(stage, message, log)]

\* p.removeAll(path): everything at and below path goes, unless it fails.
RemoveAll(d, path, ok) ==
    IF ok
    THEN Disk({ f \in d.files : ~HasPrefix(f, path \o <<Separator>>) } \ { path },
              { f \in d.dirs : ~HasPrefix(f, path \o <<Separator>>) } \ { path },
              d.entries)
    ELSE d

Goes(pc) == run' = [run EXCEPT !.pc = pc]

outPath ==
    Join(run.tempDir, <<"p", "r", "e", "p", "r", "o", "c", "e", "s", "s", "e", "d", "-",
                        "1", "6", "k", "-", "m", "o", "n", "o", ".", "w", "a", "v">>)

textPath == Join(req.OutputDir, transcriptFileName(req.InputPath))

textBase == TrimSuffix(textPath, Ext(textPath))

\* Mutant: the model path is looked at before the input path.
RunCheckInput_ModelFirst ==
    /\ PipelineAt("input")
    /\ IF resolveModelPath(req.ModelPath, disk, TRUE).err # ""
       THEN ReturnError("transcribing", "model path is required", NoCommandLog)
       ELSE IF TrimSpace(req.InputPath) = <<>> \/ Stat(disk, req.InputPath) = NoStat
       THEN ReturnError("preprocessing", "input media path is required", NoCommandLog)
       ELSE Goes("model")
    /\ UNCHANGED <<disk, calls>>
    /\ PipelineOnly

\* The input path is checked: empty after trimming, or not there.
RunCheckInput ==
    /\ PipelineAt("input")
    /\ IF TrimSpace(req.InputPath) = <<>>
       THEN ReturnError("preprocessing", "input media path is required", NoCommandLog)
       ELSE IF Stat(disk, req.InputPath) = NoStat
       THEN ReturnError("preprocessing", "cannot access input media", NoCommandLog)
       ELSE Goes("model")
    /\ UNCHANGED <<disk, calls>>
    /\ PipelineOnly

\* modelPath, err := p.resolveModelPath(req.ModelPath)
RunResolveModel ==
    /\ PipelineAt("model")
    /\ \E readable \in BOOLEAN :
          LET r == resolveModelPath(req.ModelPath, disk, readable) IN
          IF r.err # ""
          THEN ReturnError("transcribing", r.err, NoCommandLog)
          ELSE run' = [run EXCEPT !.pc = "output", !.modelPath = r.path]
    /\ UNCHANGED <<disk, calls>>
    /\ PipelineOnly

\* The output directory is checked (empty after trimming) and created.
RunMakeOutputDir ==
    /\ PipelineAt("output")
    /\ IF TrimSpace(req.OutputDir) = <<>>
       THEN /\ ReturnError("exporting", "output directory is required", NoCommandLog)
            /\ UNCHANGED disk
       ELSE \E ok \in BOOLEAN :
              IF ok
              THEN /\ disk' = [disk EXCEPT !.dirs = @ \cup { req.OutputDir }]
                   /\ Goes("mkdirTemp")
              ELSE /\ ReturnError("exporting", "cannot create output directory",
                                  NoCommandLog)
                   /\ UNCHANGED disk
    /\ UNCHANGED calls
    /\ PipelineOnly

\* tempDir, err := p.mkdirTemp("", "media-transcriber-*")
RunMkdirTemp ==
    /\ PipelineAt("mkdirTemp")
    /\ \E ok \in BOOLEAN :
          IF ok
          THEN /\ disk' = [disk EXCEPT !.dirs = @ \cup { TempDir }]
               /\ run' = [run EXCEPT !.pc = "stagePre", !.tempDir = TempDir]
               /\ Observed(<<PipelineCall("mkdirTemp", "", NoCommandLog, "")>>)
          ELSE /\ ReturnError("preprocessing", "failed to create temporary workspace",
                              NoCommandLog)
               /\ UNCHANGED <<disk, calls>>
    /\ PipelineOnly

\* emitStage(req.OnStage, stage)
emitStage(pc, stage, next) ==
    /\ PipelineAt(pc)
    /\ Observed(<<PipelineCall("OnStage", stage, NoCommandLog, "")>>)
    /\ Goes(next)
    /\ UNCHANGED disk
    /\ PipelineOnly

\* execRunner.Run: what cmd.Run() gives becomes the commandResult exit code and
\* the error.  The command is not started, exits with 0 or with 1, or is killed
\* by a signal (ExitError.ExitCode() is then -1).
CommandOutcomes == { "exit0", "exit1", "killed", "notStarted" }

execRunnerRun(outcome) ==
    CASE outcome = "exit0" -> [ExitCode |-> 0, err |-> ""]
      [] outcome = "exit1" -> [ExitCode |-> 1, err |-> "exit status 1"]
      [] outcome = "killed" -> [ExitCode |-> -1, err |-> "signal: killed"]
      [] outcome = "notStarted" -> [ExitCode |-> -1, err |-> "executable file not found"]

\* cmdResult, runErr := p.runner.Run(ctx, name, args...) and the CommandLog built
\* from it.  A command that was started may have written its output file.
RunCommand(pc, name, args, output, next) ==
    /\ PipelineAt(pc)
    /\ \E outcome \in CommandOutcomes, wrote \in BOOLEAN :
          LET r == execRunnerRun(outcome)
              log == CommandLog(name, args, r.ExitCode) IN
          /\ outcome = "notStarted" => ~wrote
          /\ disk' = IF wrote THEN [disk EXCEPT !.files = @ \cup { output }] ELSE disk
          /\ run' = IF name = ffmpegPath
                    THEN [run EXCEPT !.pc = next, !.log = log, !.runErr = r.err]
                    ELSE [run EXCEPT !.pc = next, !.whisperLog = log, !.runErr = r.err]
          /\ Observed(<<PipelineCall("Run", name, log, r.err)>>)
    /\ PipelineOnly

\* Mutant: the log of a failed command is not passed on.
emitLog_OnSuccessOnly(pc, log, next) ==
    /\ PipelineAt(pc)
    /\ IF run.runErr = ""
       THEN Observed(<<PipelineCall("OnLog", log.Command, log, "")>>)
       ELSE UNCHANGED calls
    /\ Goes(next)
    /\ UNCHANGED disk
    /\ PipelineOnly

\* emitLog(req.OnLog, log)
emitLog(pc, log, next) ==
    /\ PipelineAt(pc)
    /\ Observed(<<PipelineCall("OnLog", log.Command, log, "")>>)
    /\ Goes(next)
    /\ UNCHANGED disk
    /\ PipelineOnly

\* _ = p.removeAll(tempDir); return Result{}, &PipelineError{...}
RemoveAndReturnError(stage, message, log) ==
    \E ok \in BOOLEAN :
        /\ disk' = RemoveAll(disk, run.tempDir, ok)
        /\ Observed(<<PipelineCall("removeAll", "", NoCommandLog,
                                   IF ok THEN "" ELSE "remove failed")>>)
        /\ ReturnError(stage, message, log)

\* Mutant: the output file of the conversion is not looked for.
RunAfterFFmpeg_TrustsExit ==
    /\ PipelineAt("afterFFmpeg")
    /\ IF run.runErr # ""
       THEN RemoveAndReturnError("preprocessing", "ffmpeg audio conversion failed",
                                 run.log)
       ELSE Goes("stageTrans") /\ UNCHANGED <<disk, calls>>
    /\ PipelineOnly

\* After the conversion command: its error, then its output file.
RunAfterFFmpeg ==
    /\ PipelineAt("afterFFmpeg")
    /\ IF run.runErr # ""
       THEN RemoveAndReturnError("preprocessing", "ffmpeg audio conversion failed",
                                 run.log)
       ELSE IF Stat(disk, outPath) = NoStat
       THEN RemoveAndReturnError("preprocessing",
                                 "ffmpeg completed but output file is missing", run.log)
       ELSE Goes("stageTrans") /\ UNCHANGED <<disk, calls>>
    /\ PipelineOnly

\* After the transcription command: its error, then the transcript file.
RunAfterWhisper ==
    /\ PipelineAt("afterWhisper")
    /\ IF run.runErr # ""
       THEN RemoveAndReturnError("transcribing", "whisper.cpp transcription failed",
                                 run.whisperLog)
       ELSE IF Stat(disk, textPath) = NoStat
       THEN RemoveAndReturnError("exporting",
                                 "whisper.cpp completed but transcript .txt file is missing",
                                 run.whisperLog)
       ELSE Goes("stageExp") /\ UNCHANGED <<disk, calls>>
    /\ PipelineOnly

\* content, err := p.readFile(textPath), and the successful return.
RunReadFile ==
    /\ PipelineAt("readFile")
    /\ \E ok \in BOOLEAN :
          IF ok
          THEN /\ run' = [run EXCEPT
                            !.pc = "returned",
                            !.result = Result(outPath, textPath,
                                              <<run.log, run.whisperLog>>, run.tempDir),
                            !.err = NilStageError]
               /\ UNCHANGED <<disk, calls>>
          ELSE RemoveAndReturnError("exporting", "failed to read transcript file",
                                    run.whisperLog)
    /\ PipelineOnly

\* Mutant: a successful removal leaves the handle as it was.
Cleanup_KeepsHandle(r, d, ok) ==
    IF r.tempDir = <<>>
    THEN [result |-> r, disk |-> d, err |-> "", removals |-> 0]
    ELSE [result |-> r, disk |-> RemoveAll(d, r.tempDir, ok),
          err |-> IF ok THEN "" ELSE "remove failed", removals |-> 1]

\* Result.Cleanup on the result r: what becomes of the result and of the disk,
\* the error returned, and whether os.RemoveAll was called.
Cleanup(r, d, ok) ==
    IF r.tempDir = <<>>
    THEN [result |-> r, disk |-> d, err |-> "", removals |-> 0]
    ELSE IF ~ok
    THEN [result |-> r, disk |-> d, err |-> "remove failed", removals |-> 1]
    ELSE [result |-> [r EXCEPT !.tempDir = <<>>], disk |-> RemoveAll(d, r.tempDir, TRUE),
          err |-> "", removals |-> 1]

\* The caller calls result.Cleanup() on what Run returned.
ResultCleanup ==
    /\ PipelineAt("returned")
    /\ run.releases < MaxReleases
    /\ \E ok \in BOOLEAN :
          LET c == Cleanup(run.result, disk, ok) IN
          /\ run' = [run EXCEPT !.result = c.result, !.releases = @ + 1]
          /\ disk' = c.disk
          /\ Observed((IF c.removals = 1
                       THEN <<PipelineCall("removeAll", "", NoCommandLog, c.err)>>
                       ELSE <<>>)
                      \o <<PipelineCall("Cleanup", "", NoCommandLog, c.err)>>)
    /\ PipelineOnly

PipelineNext ==
    \/ RunCheckInput
    \/ RunResolveModel
    \/ RunMakeOutputDir
    \/ RunMkdirTemp
    \/ emitStage("stagePre", "preprocessing", "ffmpeg")
    \/ RunCommand("ffmpeg", ffmpegPath, buildFFmpegArgs(req.InputPath, outPath), outPath,
                  "logFFmpeg")
    \/ emitLog("logFFmpeg", run.log, "afterFFmpeg")
    \/ RunAfterFFmpeg
    \/ emitStage("stageTrans", "transcribing", "whisper")
    \/ RunCommand("whisper", whisperPath,
                  buildWhisperArgs(run.modelPath, outPath, textBase, req.Language),
                  textBase \o TxtExt, "logWhisper")
    \/ emitLog("logWhisper", run.whisperLog, "afterWhisper")
    \/ RunAfterWhisper
    \/ emitStage("stageExp", "exporting", "readFile")
    \/ RunReadFile
    \/ ResultCleanup

PipelineInit ==
    /\ current = NewManager
    /\ mgrRet = NoCall
    /\ nextSeq = 0
    /\ maxEvents = NewEventBus(AppMaxEvents)
    /\ events = <<>>
    /\ published = <<>>
    /\ busRet = NoBusCall
    /\ AppInit
    /\ PipelineStart

PipelineSpec == PipelineInit /\ [][PipelineNext]_vars

(***************************************************************************)
(* Job Manager claims (checked under ManagerSpec)                          *)
(***************************************************************************)
\* The transition table as the specification prints it.
EdgeTable ==
    { <<"idle", "preprocessing">>,
      <<"preprocessing", "transcribing">>, <<"preprocessing", "failed">>,
      <<"preprocessing", "cancelled">>,
      <<"transcribing", "exporting">>, <<"transcribing", "failed">>,
      <<"transcribing", "cancelled">>,
      <<"exporting", "done">>, <<"exporting", "failed">>,
      <<"exporting", "cancelled">>,
      <<"done", "preprocessing">>, <<"done", "idle">>,
      <<"failed", "preprocessing">>, <<"failed", "idle">>,
      <<"cancelled", "preprocessing">>, <<"cancelled", "idle">> }

ActiveStatuses == { "preprocessing", "transcribing", "exporting" }

TableOutcome ==
    IF <<mgrRet.before.Status, mgrRet.to>> \in EdgeTable
    THEN mgrRet.err = NilErr /\ current.Status = mgrRet.to
    ELSE mgrRet.err = ErrInvalidTransition

\* C3 (as claimed): for every pair of distinct statuses (from, to), Transition(to)
\* in status from succeeds and sets the status to `to` when the edge is in the
\* table, and fails with InvalidTransition otherwise.
C3_TableDecidesEveryPair ==
    (mgrRet.op = "Transition" /\ mgrRet.to # mgrRet.before.Status) => TableOutcome

\* C3 (amended): the same, for calls made with a job id set or with to = idle;
\* the remaining calls are rejected with the usage error before the table is read.
C3_TableDecidesWhenJobSet ==
    (/\ mgrRet.op = "Transition"
     /\ mgrRet.to # mgrRet.before.Status
     /\ (mgrRet.before.ID # EmptyID \/ mgrRet.to = JobStatusIdle)) => TableOutcome

C3_Witness ==
    /\ mgrRet.op = "Transition"
    /\ mgrRet.before = Job(1, JobStatusExporting)
    /\ mgrRet.to = JobStatusDone
    /\ current = Job(1, JobStatusDone)

\* C4: Start(jobId) fails with AlreadyRunning iff the status is preprocessing,
\* transcribing or exporting; otherwise it succeeds and the record becomes
\* {id: jobId, status: preprocessing}.
C4_StartAlreadyRunningIff ==
    mgrRet.op = "Start" =>
        /\ mgrRet.err \in { NilErr, ErrJobAlreadyRunning }
        /\ (mgrRet.err = ErrJobAlreadyRunning) <=> (mgrRet.before.Status \in ActiveStatuses)
        /\ (mgrRet.before.Status \notin ActiveStatuses) =>
               current = [ID |-> mgrRet.id, Status |-> "preprocessing"]

C4_Witness ==
    /\ mgrRet.op = "Start"
    /\ mgrRet.before = Job(1, JobStatusFailed)
    /\ mgrRet.id = 2
    /\ current = Job(2, JobStatusPreprocessing)

\* C5: Cancel fails with NoRunningJob iff the status is not preprocessing,
\* transcribing or exporting; otherwise the status becomes cancelled; a Cancel
\* that follows a Cancel therefore fails with NoRunningJob.
C5_CancelNoRunningJobIff ==
    mgrRet.op = "Cancel" =>
        /\ mgrRet.err \in { NilErr, ErrNoRunningJob }
        /\ (mgrRet.err = ErrNoRunningJob) <=> (mgrRet.before.Status \notin ActiveStatuses)
        /\ (mgrRet.err = NilErr) => current.Status = "cancelled"
        /\ ManagerCancel(current).err = ErrNoRunningJob

C5_Witness ==
    /\ mgrRet.op = "Cancel"
    /\ mgrRet.before.Status = JobStatusTranscribing
    /\ mgrRet.err = NilErr
    /\ current.Status = JobStatusCancelled

\* C6 (as claimed): in every reachable state Transition(current status) returns
\* success and leaves job id and status unchanged.
C6_SelfTransitionAlwaysNoop ==
    (mgrRet.op = "Transition" /\ mgrRet.to = mgrRet.before.Status) =>
        (mgrRet.err = NilErr /\ current = mgrRet.before)

\* C6 (amended): Transition(current status) returns success and changes nothing
\* in every reachable state that has a job id set or whose status is idle.
C6_SelfTransitionNoopWhenJobSet ==
    (/\ mgrRet.op = "Transition"
     /\ mgrRet.to = mgrRet.before.Status
     /\ (mgrRet.before.ID # EmptyID \/ mgrRet.before.Status = JobStatusIdle)) =>
        (mgrRet.err = NilErr /\ current = mgrRet.before)

C6_Witness ==
    /\ mgrRet.op = "Transition"
    /\ mgrRet.before = Job(2, JobStatusTranscribing)
    /\ mgrRet.to = JobStatusTranscribing
    /\ mgrRet.err = NilErr

\* C7 (as claimed): with no job id set, Transition(to) fails with the usage
\* error (not InvalidTransition) when to is not idle, and Transition(idle)
\* succeeds.
C7_UsageErrorAndIdleSucceeds ==
    (mgrRet.op = "Transition" /\ mgrRet.before.ID = EmptyID) =>
        IF mgrRet.to # JobStatusIdle
        THEN mgrRet.err = ErrNoActiveJob
        ELSE mgrRet.err = NilErr

\* C7 (amended): with no job id set, Transition(to) fails with the usage error
\* when to is not idle; Transition(idle) never fails with the usage error and
\* succeeds whenever the status is idle, done, failed or cancelled.
C7_UsageErrorAndIdleFromInactive ==
    (mgrRet.op = "Transition" /\ mgrRet.before.ID = EmptyID) =>
        IF mgrRet.to # JobStatusIdle
        THEN mgrRet.err = ErrNoActiveJob /\ current = mgrRet.before
        ELSE /\ mgrRet.err # ErrNoActiveJob
             /\ (mgrRet.before.Status \notin ActiveStatuses) =>
                    (mgrRet.err = NilErr /\ current.Status = "idle")

C7_Witness ==
    /\ mgrRet.op = "Transition"
    /\ mgrRet.before = NewManager
    /\ mgrRet.to = JobStatusPreprocessing
    /\ mgrRet.err = ErrNoActiveJob

(***************************************************************************)
(* Event Bus claims (checked under EventBusSpec)                           *)
(***************************************************************************)
Min(a, b) == IF a < b THEN a ELSE b

Elements(s) == { s[i] : i \in 1 .. Len(s) }

\* C8: each Publish assigns the event the sequence number one greater than that
\* of the previous Publish (the first gets 1), whatever Seq the caller supplied;
\* the retained events carry consecutive, strictly increasing sequence numbers
\* that end at the last number assigned.
C8_SeqConsecutive ==
    /\ \A i \in 1 .. Len(published) : published[i].Seq = i
    /\ busRet.op = "Publish" =>
           /\ busRet.out[1].Seq = busRet.nextSeq + 1
           /\ nextSeq = busRet.nextSeq + 1
    /\ \A i \in 1 .. Len(events) : events[i].Seq = nextSeq - Len(events) + i

C8_Witness ==
    /\ busRet.op = "Publish"
    /\ busRet.seq = 7
    /\ busRet.out[1].Seq = 4
    /\ Len(events) = 2
    /\ maxEvents = 2

\* C9: for s >= 0, Since(s) returns exactly the retained events whose seq is
\* greater than s, in ascending seq order (an empty result when there is none),
\* and leaves the bus as it was.
C9_SinceExactlyNewer ==
    (busRet.op = "Since" /\ busRet.seq >= 0) =>
        /\ Elements(busRet.out) = { e \in Elements(busRet.events) : e.Seq > busRet.seq }
        /\ \A i, j \in 1 .. Len(busRet.out) : i < j => busRet.out[i].Seq < busRet.out[j].Seq
        /\ events = busRet.events
        /\ nextSeq = busRet.nextSeq

C9_Witness ==
    /\ busRet.op = "Since"
    /\ busRet.seq = 3
    /\ Len(busRet.events) = 3
    /\ Len(busRet.out) = 2
    /\ nextSeq = 5

\* C10: a bus of capacity N after M Publish calls retains exactly the last
\* min(M, N) published events in publish order, Since(0) returns them
\* oldest-first, and the retained count never exceeds N.
LastPublished(k) == SubSeq(published, Len(published) - k + 1, Len(published))

C10_RetainsLastN ==
    /\ events = LastPublished(Min(Len(published), maxEvents))
    /\ Len(events) <= maxEvents
    /\ (busRet.op = "Since" /\ busRet.seq = 0) =>
           busRet.out = LastPublished(Min(Len(published), maxEvents))

C10_Witness ==
    /\ Len(published) = 5
    /\ maxEvents = 2
    /\ busRet.op = "Since"
    /\ busRet.seq = 0
    /\ Len(busRet.out) = 2
    /\ busRet.out[1].Seq = 4

(***************************************************************************)
(* Orchestration claims (checked under Spec; C19 under RaceSpec)            *)
(***************************************************************************)
\* A pipeline task is in flight from the go statement until it returns.
InFlight(j) == task[j].pc \notin { "none", "returned" }

\* C1: at most one pipeline task is in flight at any time: no StartTranscription
\* succeeds and launches a task while an earlier task has not yet returned.
C1_AtMostOneTaskInFlight ==
    Cardinality({ j \in JobIDs : InFlight(j) }) <= 1

\* C2: a job reaches exactly one terminal status: once the Manager record of a
\* job has been done, failed or cancelled, it never is a different terminal
\* status for that job.
C2_OneTerminalStatusPerJob ==
    \A j \in JobIDs : Cardinality(terminals[j]) <= 1

\* The events published for job j, in publish order (the bus of the App retains
\* AppMaxEvents events, more than a run within MaxSeq publishes).
EventsOf(j) == SelectSeq(events, LAMBDA e : e.JobID = j)

Count(evs, Test(_)) == Len(SelectSeq(evs, Test))

IsErrorEvent(e) == e.Type = EventTypeError

\* The accepted CancelTranscription calls made while the Manager record was job j
\* in status `status`.
CancelledIn(j, status) ==
    \E i \in 1 .. Len(cancels) :
        /\ cancels[i].err = NilErr
        /\ cancels[i].activeJobID = j
        /\ cancels[i].job = Job(j, status)

\* C11: if CancelTranscription is invoked while a job is in status transcribing,
\* the job's final status is cancelled (it never takes another terminal status)
\* and no error-type event is ever published for that job.
C11_CancelWhileTranscribing ==
    \A j \in JobIDs :
        CancelledIn(j, JobStatusTranscribing) =>
            /\ Count(EventsOf(j), IsErrorEvent) = 0
            /\ terminals[j] \subseteq { JobStatusCancelled }
            /\ (task[j].pc = "returned" /\ canceller.pc = "idle") =>
                   terminals[j] = { JobStatusCancelled }

\* The task of job j has taken the failure branch of runTranscriptionJob (the
\* error Run returned is not classified as cancellation) and has returned.
FailedAndReturned(j) == task[j].pc = "returned" /\ task[j].err.kind = "fail"

IsReplayEvent(e) == e.Type = EventTypeLog /\ e.Message = "Failed command"

\* C12: when the pipeline fails with an error that is not classified as
\* cancellation, the job transitions to failed, exactly one error-type event
\* carrying the failure message is published for the job, and a replay log event
\* is published iff the error carries a CommandLog with a non-empty command.
C12_FailureBranch ==
    \A j \in JobIDs :
        FailedAndReturned(j) =>
            /\ JobStatusFailed \in terminals[j]
            /\ Count(EventsOf(j), IsErrorEvent) = 1
            /\ Count(EventsOf(j), LAMBDA e : IsErrorEvent(e) /\ e.Message = "pipeline error") = 1
            /\ Count(EventsOf(j), IsReplayEvent) = (IF task[j].err.command # "" THEN 1 ELSE 0)

\* The task of job j has taken the cancellation branch of runTranscriptionJob
\* and has returned, and no CancelTranscription call is under way.
CancelledAndReturned(j) ==
    /\ task[j].pc = "returned"
    /\ task[j].err.kind = "cancel"
    /\ canceller.pc = "idle"

IsCancelledStatus(e) == e.Type = EventTypeStatus /\ e.Status = JobStatusCancelled

AcceptedCancels(j) ==
    Cardinality({ i \in 1 .. Len(cancels) :
                    cancels[i].err = NilErr /\ cancels[i].activeJobID = j })

\* C13 (as claimed): for a job that ends by cancellation, exactly one status
\* event with status cancelled is published for that job id.
C13_OneCancelledStatusEvent ==
    \A j \in JobIDs :
        CancelledAndReturned(j) => Count(EventsOf(j), IsCancelledStatus) = 1

\* C13 (amended): for a job that ends by cancellation, its task publishes exactly
\* one status event "Job cancelled", and every accepted CancelTranscription call
\* that read the job id publishes one more status event with status cancelled,
\* "Cancellation requested"; a task that does not end by cancellation publishes
\* no "Job cancelled" event.
C13_OneJobCancelledPerTask ==
    \A j \in JobIDs :
        /\ CancelledAndReturned(j) =>
              /\ Count(EventsOf(j), LAMBDA e : IsCancelledStatus(e) /\ e.Message = "Job cancelled") = 1
              /\ Count(EventsOf(j), LAMBDA e : IsCancelledStatus(e) /\ e.Message = "Cancellation requested")
                     = AcceptedCancels(j)
              /\ Count(EventsOf(j), IsCancelledStatus) = 1 + AcceptedCancels(j)
        /\ task[j].err.kind # "cancel" =>
              Count(EventsOf(j), LAMBDA e : e.Message = "Job cancelled") = 0

C13_Witness ==
    \E j \in JobIDs :
        /\ CancelledAndReturned(j)
        /\ AcceptedCancels(j) = 1
        /\ Count(EventsOf(j), IsCancelledStatus) = 2

\* Pipeline.Run returned a Result to the task of job j (both tools succeeded and
\* left their output files), and the task has returned.
SucceededAndReturned(j) == task[j].pc = "returned" /\ task[j].err = NoError

\* No CancelTranscription call got past the nil check.
NoCancellationRequested == \A i \in 1 .. Len(cancels) : cancels[i].err # NilErr

IsResultEvent(e) == e.Type = EventTypeResult

IsDoneStatus(e) == e.Type = EventTypeStatus /\ e.Status = JobStatusDone

\* C14: when both tools succeed and no cancellation is requested, the job's
\* final status is done and exactly one result-type event is published for the
\* job, carrying the transcript path the pipeline returned, after the done
\* status event and after all stage status and log events of that job.
C14_SuccessEndsWithResult ==
    \A j \in JobIDs :
        (SucceededAndReturned(j) /\ NoCancellationRequested) =>
            LET evs == EventsOf(j) IN
            /\ terminals[j] = { JobStatusDone }
            /\ Count(evs, IsResultEvent) = 1
            /\ Count(evs, IsDoneStatus) = 1
            /\ IsResultEvent(evs[Len(evs)])
            /\ evs[Len(evs)].TextPath = TextPath
            /\ IsDoneStatus(evs[Len(evs) - 1])
            /\ \A st \in { JobStatusPreprocessing, JobStatusTranscribing, JobStatusExporting } :
                  \E i \in 1 .. Len(evs) - 2 :
                      evs[i].Type = EventTypeStatus /\ evs[i].Status = st
            /\ Count(evs, LAMBDA e : e.Type = EventTypeLog) = 2

C14_Witness ==
    \E j \in JobIDs :
        /\ SucceededAndReturned(j)
        /\ cancels = <<>>
        /\ terminals[j] = { JobStatusDone }
        /\ Len(EventsOf(j)) = 8
        /\ EventsOf(j)[8].TextPath = TextPath

\* C16: state-machine errors never reach the event bus: a StartTranscription call
\* that fails with AlreadyRunning and a CancelTranscription call that fails with
\* NoRunningJob publish no event and leave the Job Manager record and the
\* active-job bookkeeping (job id, cancellation token) unchanged.
C16_RejectedCallsChangeNothing ==
    [][(StartRejected(MaxJobs) \/ CancelRejected) =>
           UNCHANGED <<current, nextSeq, events, activeJobID, cancel, ctxDone, task>>]_vars

C16_Witness ==
    /\ \E j \in JobIDs : starter[j] = "rejected"
    /\ \E i \in 1 .. Len(cancels) : cancels[i].err = ErrNoRunningJob
    /\ events # <<>>

\* The stage callbacks Pipeline.Run makes: the position of the Transition call,
\* the stage, the position of the publication and the position after it.
StagePoints ==
    { <<"stagePre", "preprocessing", "pubPre", "ffmpeg">>,
      <<"stageTrans", "transcribing", "pubTrans", "whisper">>,
      <<"stageExp", "exporting", "pubExp", "export">> }

Leaves(j, pc) == task[j].pc = pc /\ task'[j].pc # pc

StageStatusEvent(j, stage) ==
    Event(nextSeq + 1, TimeNow, j, EventTypeStatus, mapStageToStatus(stage).status,
          "Running " \o stage \o " stage", "", "")

\* C17: a stage callback for stage S publishes a status event with status S for
\* its job only if the Job Manager Transition(S) call succeeded; when Transition
\* is rejected, or the stage name is unknown, no status event is published and
\* the job status is unchanged.
C17_StageEventOnlyOnSuccess ==
    [][/\ \A j \in JobIDs, sp \in StagePoints :
             LET m == mapStageToStatus(sp[2])
                 r == ManagerTransition(current, m.status) IN
             /\ Leaves(j, sp[1]) =>
                   /\ events' = events
                   /\ IF m.ok /\ r.err = NilErr
                      THEN task'[j].pc = sp[3] /\ current' = Job(current.ID, m.status)
                      ELSE task'[j].pc = sp[4] /\ current' = current
             /\ Leaves(j, sp[3]) =>
                   /\ events' = Append(events, StageStatusEvent(j, sp[2]))
                   /\ task'[j].pc = sp[4]
       /\ \A stage \in { "", "cleanup", "done", "failed" } : ~mapStageToStatus(stage).ok
       /\ (Len(events') > Len(events) /\ events'[Len(events')].Message \in
               { "Running " \o sp[2] \o " stage" : sp \in StagePoints }) =>
              \E j \in JobIDs, sp \in StagePoints : Leaves(j, sp[3])
      ]_vars

C17_Witness ==
    \E j \in JobIDs :
        /\ task[j].pc = "whisper"
        /\ current = Job(j, JobStatusCancelled)
        /\ Count(EventsOf(j), LAMBDA e : e.Status = JobStatusTranscribing) = 0
        /\ Count(EventsOf(j), LAMBDA e : e.Message = "Running preprocessing stage") = 1

\* The CancelTranscription call cancels[i] has returned.
Returned(i) == i < Len(cancels) \/ canceller.pc = "idle"

IsCancelRequest(e) == IsCancelledStatus(e) /\ e.Message = "Cancellation requested"

\* C18: CancelTranscription fails with NoRunningJob iff no cancellation token is
\* recorded; otherwise it fires the token, calls Job Manager Cancel tolerating a
\* NoRunningJob result, publishes a status event with status cancelled for the
\* recorded job id, and returns success.
C18_CancelTranscription ==
    /\ [](\A i \in 1 .. Len(cancels) :
            LET c == cancels[i] IN
            /\ c.err \in { NilErr, ErrNoRunningJob }
            /\ (c.err = ErrNoRunningJob) <=> (c.cancel = NoCancel)
            /\ c.err = NilErr =>
                  /\ c.activeJobID = c.cancel
                  /\ c.activeJobID \in JobIDs
                  /\ (Returned(i) \/ canceller.pc \in { "jobs", "publish" }) =>
                         c.cancel \in ctxDone
                  /\ Returned(i) =>
                         Count(EventsOf(c.activeJobID), IsCancelRequest)
                             = Cardinality({ k \in 1 .. Len(cancels) :
                                   /\ Returned(k)
                                   /\ cancels[k].err = NilErr
                                   /\ cancels[k].activeJobID = c.activeJobID }))
    /\ [][/\ (canceller.pc = "jobs" /\ canceller'.pc # "jobs") =>
                /\ canceller'.pc = "publish"
                /\ current' = ManagerCancel(current).job
                /\ ManagerCancel(current).err \in { NilErr, ErrNoRunningJob }
          /\ (canceller.pc = "publish" /\ canceller'.pc # "publish") =>
                /\ canceller'.pc = "idle"
                /\ Len(events') = Len(events) + 1
                /\ IsCancelRequest(events'[Len(events')])
                /\ events'[Len(events')].JobID = canceller.activeJobID
         ]_vars

C18_Witness ==
    /\ Len(cancels) = 1
    /\ cancels[1].err = NilErr
    /\ cancels[1].job.Status = JobStatusDone
    /\ canceller.pc = "idle"
    /\ Count(EventsOf(cancels[1].activeJobID), IsCancelRequest) = 1

\* A StartTranscription call made after that of job j has succeeded.
NewerJobStarted(j) ==
    \E k \in JobIDs : k > j /\ starter[k] \notin { "none", "rejected" }

\* C19: when a job's pipeline task finishes it clears the recorded job id and
\* cancellation token exactly once and only if the recorded job id is still its
\* own: the bookkeeping of a job started later is never cleared by an earlier
\* job's task, and after a task finishes with no newer job started no token
\* remains recorded.
C19_ClearOwnBookkeepingOnly ==
    /\ [](\A j \in JobIDs :
            task[j].pc = "returned" =>
                /\ activeJobID # j /\ cancel # j
                /\ ~NewerJobStarted(j) => (activeJobID = EmptyID /\ cancel = NoCancel))
    /\ [][/\ \A j \in JobIDs :
                Leaves(j, "clear") =>
                    /\ task'[j].pc = "returned"
                    /\ IF activeJobID = j
                       THEN activeJobID' = EmptyID /\ cancel' = NoCancel
                       ELSE UNCHANGED <<activeJobID, cancel>>
          /\ \A k \in JobIDs :
                \/ activeJobID = k /\ activeJobID' = EmptyID
                \/ cancel = k /\ cancel' = NoCancel
                => Leaves(k, "clear")
         ]_vars

IsCleanupEvent(e) == IsErrorEvent(e) /\ e.Message = "cleanup temporary files"

\* The pipeline of job j succeeded and releasing its workspace failed.
CleanupFailed(j) == Count(EventsOf(j), IsCleanupEvent) > 0

IsFailedStatus(e) == e.Type = EventTypeStatus /\ e.Status = JobStatusFailed

Ascending(evs) == \A i, j \in 1 .. Len(evs) : i < j => evs[i].Seq < evs[j].Seq

\* C15: under concurrent publishers (the pipeline task and a CancelTranscription
\* caller) the events of a job reach every reader in the order they were
\* published: JobEvents/Since returns them in ascending seq order and the
\* live-push channel emits them in ascending seq order.
C15_ReadersSeePublishOrder ==
    /\ busRet.op = "Since" => Ascending(busRet.out)
    /\ Ascending(emitted)

(***************************************************************************)
(* Pipeline claims (checked under PipelineSpec)                            *)
(***************************************************************************)
CallsOf(op) == { i \in 1 .. Len(calls) : calls[i].op = op }

\* Run has returned an error.
ReturnedError == PipelineAt("returned") /\ run.err # NilStageError

\* Run has returned success.
ReturnedSuccess == PipelineAt("returned") /\ run.err = NilStageError

\* The temporary workspace was created by this run.
WorkspaceCreated == run.tempDir # <<>>

WorkspaceExists == Stat(disk, TempDir) = StatDir

\* C21: whenever Pipeline.Run returns an error after the temporary workspace was
\* created, the workspace has been removed before Run returns; whenever Run
\* returns success, the workspace still exists and is removed only by the
\* caller's release operation.
C21_WorkspaceRemovedOnEveryFailure ==
    /\ (ReturnedError /\ WorkspaceCreated) => ~WorkspaceExists
    /\ ReturnedSuccess => (WorkspaceExists \/ CallsOf("Cleanup") # {})

\* The release calls made so far, and those among them that returned success.
Releases == CallsOf("Cleanup")

Released == { i \in Releases : calls[i].err = "" }

\* The release call at position i of the observer's list called os.RemoveAll.
Removing(i) == i > 1 /\ calls[i - 1].op = "removeAll"

\* C22 (as claimed): releasing the workspace handle removes the temporary
\* workspace, and every release call after the first is a no-op that returns
\* success and performs no removal.
C22_FirstReleaseRemoves ==
    ReturnedSuccess =>
        /\ Releases # {} => ~WorkspaceExists
        /\ \A i \in Releases :
              (\E k \in Releases : k < i) => (calls[i].err = "" /\ ~Removing(i))

\* C22 (amended): a release call removes the temporary workspace unless the
\* removal fails; a failed release returns the error and keeps the handle, so
\* that the next call tries again; every release call after a successful one is a
\* no-op that returns success and performs no removal.
C22_ReleaseUntilRemoved ==
    ReturnedSuccess =>
        /\ \A i \in Releases :
              IF \E k \in Released : k < i
              THEN calls[i].err = "" /\ ~Removing(i)
              ELSE Removing(i) /\ calls[i - 1].err = calls[i].err
        /\ IF Released # {}
           THEN ~WorkspaceExists /\ run.result.tempDir = <<>>
           ELSE WorkspaceExists /\ run.result.tempDir = TempDir

\* A release failed, the next one removed the workspace, a third did nothing.
C22_Witness ==
    /\ ReturnedSuccess
    /\ \E i, j, k \in Releases :
          /\ i < j /\ j < k
          /\ calls[i].err # "" /\ Removing(i)
          /\ calls[j].err = "" /\ Removing(j)
          /\ calls[k].err = "" /\ ~Removing(k)
    /\ ~WorkspaceExists

\* What is wrong with the request, told from the request and the disk alone.
InputBad == TrimSpace(req.InputPath) = <<>> \/ Stat(disk, req.InputPath) = NoStat

ModelBad == resolveModelPath(req.ModelPath, disk, TRUE).err # ""

OutputBad == TrimSpace(req.OutputDir) = <<>>

\* The model path is a directory that p.readDir failed to list.
ModelUnreadable ==
    /\ run.err.Stage = "transcribing"
    /\ run.err.Message = "cannot read model directory"

\* Run did nothing one could observe: no workspace, no command, no callback.
NothingDone ==
    /\ \A i \in 1 .. Len(calls) : calls[i].op = "Cleanup"
    /\ ~WorkspaceExists
    /\ ~WorkspaceCreated

\* C23: Pipeline.Run validates, in this order, the input path (error tagged
\* preprocessing), the model path (error tagged transcribing) and the output
\* directory (error tagged exporting); on any of these validation failures it
\* returns without creating a workspace, invoking any external command, or
\* emitting any stage or log callback.
C23_ValidationInOrder ==
    /\ InputBad => run.pc \in { "input", "returned" }
    /\ ModelBad => run.pc \in { "input", "model", "returned" }
    /\ OutputBad => run.pc \in { "input", "model", "output", "returned" }
    /\ (PipelineAt("returned") /\ (InputBad \/ ModelBad \/ OutputBad)) =>
          /\ IF InputBad THEN run.err.Stage = "preprocessing"
             ELSE IF ModelBad THEN run.err.Stage = "transcribing"
             ELSE run.err.Stage = "exporting" \/ ModelUnreadable
          /\ run.result = ZeroResult
          /\ NothingDone
    /\ run.pc \in { "input", "model", "output", "mkdirTemp" } => NothingDone

\* The input is fine, the model path and the output directory are not, and Run
\* has returned.
C23_Witness ==
    /\ PipelineAt("returned")
    /\ ~InputBad /\ ModelBad /\ OutputBad
    /\ run.err.Stage = "transcribing"

\* The calls of the external command name, as positions in the observer's list.
Invocations(name) == { i \in CallsOf("Run") : calls[i].arg = name }

\* The command name was invoked and failed.
CommandFailed(name) == \E i \in Invocations(name) : calls[i].err # ""

\* C24: a conversion-tool failure (non-zero exit code, e.g. 1) makes Pipeline.Run
\* return an error tagged stage=preprocessing carrying the conversion command's
\* log with that exit code, removes the temporary workspace, and never invokes
\* the transcription tool.
C24_ConversionFailure ==
    CommandFailed(ffmpegPath) =>
        /\ Invocations(whisperPath) = {}
        /\ PipelineAt("returned") =>
              /\ run.err.Stage = "preprocessing"
              /\ \A i \in Invocations(ffmpegPath) :
                    /\ run.err.CommandLog = calls[i].log
                    /\ run.err.CommandLog.ExitCode # 0
              /\ ~WorkspaceExists

\* The positions of the language flag in an argument list.
FlagsIn(args) == { k \in 1 .. Len(args) : args[k] = LanguageFlag }

Auto == <<"a", "u", "t", "o">>

\* C25 (as claimed): the transcription command includes no language flag when
\* the language value is empty or "auto", and for any other non-empty value v it
\* includes the language flag followed by exactly v.
C25_LanguageFlagExact ==
    \A i \in Invocations(whisperPath) :
        LET args == calls[i].log.Args IN
        IF req.Language = <<>> \/ req.Language = Auto
        THEN FlagsIn(args) = {}
        ELSE \E k \in FlagsIn(args) : k < Len(args) /\ args[k + 1] = req.Language

\* C25 (amended): the transcription command includes no language flag when the
\* language value, trimmed of white space, is empty or equal to "auto" whatever
\* the case of its letters; for any other value it includes the language flag
\* once, as its last but one argument, followed by the trimmed value.
C25_LanguageFlagTrimmed ==
    \A i \in Invocations(whisperPath) :
        LET args == calls[i].log.Args
            v == TrimSpace(req.Language) IN
        IF v = <<>> \/ ToLower(v) = Auto
        THEN FlagsIn(args) = {}
        ELSE /\ FlagsIn(args) = { Len(args) - 1 }
             /\ args[Len(args)] = v

\* The transcription command was invoked for a language given with a trailing
\* blank.
C25_Witness ==
    /\ PipelineAt("logWhisper")
    /\ Invocations(whisperPath) # {}
    /\ req.Language = <<"e", "n", " ">>

\* Run is past the resolution of the model path, which succeeded.
ModelResolved == run.modelPath # <<>>

\* Run returned the error of the model path's resolution.
ModelRejected ==
    /\ PipelineAt("returned")
    /\ run.err.Stage = "transcribing"
    /\ run.err.CommandLog = NoCommandLog

\* Run is past the resolution of the model path.
PastModel == ~InputBad /\ run.pc \notin { "input", "model" }

\* The names of the files of the model directory whose extension is in exts.
FilesWithExt(exts) ==
    { e.Name : e \in { entry \in disk.entries : ~entry.IsDir /\ Ext(entry.Name) \in exts } }

Smallest(names, n) == n \in names /\ \A m \in names \ { n } : StringLess(n, m)

\* C26 (as claimed): when the model path names a directory, the resolved model
\* is the lexicographically smallest name among its non-directory entries with
\* extension .bin or .gguf, and resolution fails with an error tagged
\* stage=transcribing when no such entry exists; when the path names a file it
\* is used unchanged.
C26_SmallestModelFile ==
    /\ (Stat(disk, req.ModelPath) = StatDir /\ ModelResolved) =>
          \E n \in FilesWithExt(ModelExts) :
              /\ Smallest(FilesWithExt(ModelExts), n)
              /\ run.modelPath = Join(req.ModelPath, n)
    /\ (Stat(disk, req.ModelPath) = StatDir /\ FilesWithExt(ModelExts) = {} /\ PastModel) =>
          ModelRejected
    /\ (Stat(disk, req.ModelPath) = StatFile /\ ModelResolved) =>
          run.modelPath = req.ModelPath

\* The extensions that differ from .bin and .gguf in the case of letters only.
ModelExtsAnyCase ==
    { Ext(e.Name) : e \in { entry \in disk.entries : ToLower(Ext(entry.Name)) \in ModelExts } }

\* C26 (amended): the model path is trimmed of surrounding white space.  When it
\* names a directory, the resolved model is the smallest name, in byte order,
\* among its non-directory entries whose extension is .bin or .gguf in any case
\* of letters, and resolution fails with an error tagged stage=transcribing when
\* no such entry exists; when it names a file that path is used.
C26_SmallestModelFileAnyCase ==
    LET path == TrimSpace(req.ModelPath)
        names == FilesWithExt(ModelExtsAnyCase) IN
    /\ (Stat(disk, path) = StatDir /\ ModelResolved) =>
          \E n \in names : Smallest(names, n) /\ run.modelPath = Join(path, n)
    /\ (Stat(disk, path) = StatDir /\ names = {} /\ PastModel) => ModelRejected
    /\ (Stat(disk, path) = StatFile /\ ModelResolved) => run.modelPath = path

\* The model directory holds a.gguf, z.bin and B.BIN among others, and B.BIN
\* was resolved.
C26_Witness ==
    /\ disk.entries = Catalogue
    /\ run.modelPath = Join(ModelPath, <<"B", ".", "B", "I", "N">>)
    /\ PipelineAt("output")

IsStageCall(c) == c.op = "OnStage"

\* The stages the stage callback was called with, in order.
StagesEmitted ==
    LET stageCalls == SelectSeq(calls, IsStageCall) IN
    [i \in 1 .. Len(stageCalls) |-> stageCalls[i].arg]

AllStages == <<"preprocessing", "transcribing", "exporting">>

\* The step calls the stage callback with stage.
EmitsStage(stage) ==
    /\ Len(calls') = Len(calls) + 1
    /\ calls'[Len(calls')] = PipelineCall("OnStage", stage, NoCommandLog, "")

\* The step invokes the external command name.
Invokes(name) == Invocations(name)' # Invocations(name)

\* The command name was invoked and returned without error.
CommandSucceeded(name) == \E i \in Invocations(name) : calls[i].err = ""

\* C27: in any pipeline run the stage callbacks are emitted as a prefix of the
\* sequence preprocessing, transcribing, exporting, each at most once; the
\* transcription tool is invoked only after the conversion tool succeeded and
\* its output file exists, and the exporting stage is emitted only after the
\* transcript file was found.
C27_StagesInSequence ==
    /\ [](/\ Len(StagesEmitted) <= Len(AllStages)
          /\ StagesEmitted = SubSeq(AllStages, 1, Len(StagesEmitted)))
    /\ [][/\ Invokes(whisperPath) =>
                /\ CommandSucceeded(ffmpegPath)
                /\ Stat(disk, outPath) = StatFile
                /\ StagesEmitted = SubSeq(AllStages, 1, 2)
          /\ EmitsStage("exporting") =>
                /\ CommandSucceeded(whisperPath)
                /\ Stat(disk, textPath) = StatFile
         ]_vars

\* Run returned success after the three stages.
C27_Witness ==
    /\ ReturnedSuccess
    /\ StagesEmitted = AllStages
    /\ Invocations(ffmpegPath) # {} /\ Invocations(whisperPath) # {}

\* C28: for each external command the pipeline invokes, the log callback is
\* called exactly once with that command's log, after the command returns and
\* before the pipeline acts on its outcome, on success and on failure alike; the
\* number of log callbacks in a run equals the number of commands invoked (at
\* most two).
C28_OneLogPerCommand ==
    /\ \A i \in CallsOf("Run") :
          IF i = Len(calls)
          THEN run.pc \in { "logFFmpeg", "logWhisper" }
          ELSE /\ calls[i + 1].op = "OnLog"
               /\ calls[i + 1].log = calls[i].log
               /\ calls[i + 1].log.Command = calls[i].arg
    /\ \A k \in CallsOf("OnLog") : k > 1 /\ calls[k - 1].op = "Run"
    /\ Cardinality(CallsOf("Run")) <= 2
    /\ PipelineAt("returned") =>
          Cardinality(CallsOf("OnLog")) = Cardinality(CallsOf("Run"))

\* Run returned the error of a failed transcription command: two commands, two
\* log callbacks, the second with the log of the failure.
C28_Witness ==
    /\ ReturnedError
    /\ CommandSucceeded(ffmpegPath)
    /\ CommandFailed(whisperPath)
    /\ Cardinality(CallsOf("OnLog")) = 2
    /\ \E k \in CallsOf("OnLog") : calls[k].log = run.err.CommandLog

\* The transcription command exited cleanly and its transcript is not there.
TranscriptMissing ==
    /\ CommandSucceeded(whisperPath)
    /\ Stat(disk, textPath) = NoStat
    /\ run.pc \notin { "logWhisper", "afterWhisper" }

\* C29: a transcription-tool failure makes Pipeline.Run fail tagged
\* stage=transcribing carrying the transcription command's log, and a clean
\* transcription-tool exit with the expected .txt transcript missing makes it
\* fail tagged stage=exporting; in both cases the exporting stage callback is
\* never emitted and the workspace is removed.
C29_TranscriptionFailure ==
    /\ (CommandFailed(whisperPath) /\ run.pc # "logWhisper") =>
          /\ run.pc \in { "afterWhisper", "returned" }
          /\ "exporting" \notin { StagesEmitted[i] : i \in 1 .. Len(StagesEmitted) }
          /\ PipelineAt("returned") =>
                /\ run.err.Stage = "transcribing"
                /\ \A i \in Invocations(whisperPath) : run.err.CommandLog = calls[i].log
                /\ ~WorkspaceExists
    /\ TranscriptMissing =>
          /\ PipelineAt("returned")
          /\ run.err.Stage = "exporting"
          /\ "exporting" \notin { StagesEmitted[i] : i \in 1 .. Len(StagesEmitted) }
          /\ ~WorkspaceExists

(***************************************************************************)
(* Event Bus claims on trimming (checked under EventBusSpec)               *)
(***************************************************************************)
\* The events published so far that capacity has pushed out: all but the last
\* maxEvents of them.
Trimmed == { published[i] : i \in 1 .. Len(published) - maxEvents }

\* C30: once an event has been trimmed from the bus because capacity was
\* exceeded, no later Since call with any argument ever returns it again.
C30_TrimmedNeverReturned ==
    /\ [](/\ \A e \in Trimmed : e \notin Elements(events)
          /\ busRet.op = "Since" => \A e \in Trimmed : e \notin Elements(busRet.out))
    /\ [][Trimmed \subseteq Trimmed']_vars

\* Since was asked for everything after events were trimmed, and returned the
\* events that are left.
C30_Witness ==
    /\ busRet.op = "Since"
    /\ busRet.seq = -1
    /\ Cardinality(Trimmed) >= 2
    /\ busRet.out # <<>>

(***************************************************************************)
(* Orchestration claims on ownership of the Manager record (checked under  *)
(* Spec)                                                                   *)
(***************************************************************************)
\* The task of job j takes a step: a stage callback, a terminal transition, a
\* publication or its return.
TaskMoves(j) == task'[j] # task[j]

\* C31: a pipeline task only ever changes the Job Manager status of its own job:
\* the stage callbacks and terminal transitions of job A's task never change the
\* status while the Job Manager's current job id is that of a different job B.
C31_TaskChangesOwnJobOnly ==
    [][\A j \in JobIDs :
          (TaskMoves(j) /\ current' # current) => current.ID = j]_vars

\* A CancelTranscription call that read job j while its Manager status was active
\* has returned nil.
CancelReturnedFor(j) ==
    \E i \in 1 .. Len(cancels) :
        /\ Returned(i)
        /\ cancels[i].err = NilErr
        /\ cancels[i].activeJobID = j
        /\ cancels[i].job.ID = j
        /\ isRunning(cancels[i].job.Status)

\* C32: after CancelTranscription returns success for an active job J, the Job
\* Manager status of J never again becomes an active status (preprocessing,
\* transcribing, exporting) nor done, whatever the pipeline task of J does
\* afterwards.
C32_CancelledNeverRevived ==
    [][\A j \in JobIDs :
          (CancelReturnedFor(j) /\ current' # current /\ current'.ID = j) =>
              ~isRunning(current'.Status) /\ current'.Status # JobStatusDone]_vars

\* No API call is part-way through and no pipeline task is in flight.
Quiescent ==
    /\ canceller.pc = "idle"
    /\ \A k \in JobIDs : ~InFlight(k) /\ starter[k] \notin { "record", "publish" }

\* The Manager record is still that of job j and nothing is left that could
\* change it: its status is the final status of job j.
FinalStatusOf(j, status) == Quiescent /\ current = Job(j, status)

\* C33: a result-type event is published for a job only if that job's final Job
\* Manager status is done; a job whose final status is cancelled or failed has
\* no result event.
C33_ResultOnlyWhenDone ==
    \A j \in JobIDs :
        /\ (Quiescent /\ current.ID = j /\ Count(EventsOf(j), IsResultEvent) > 0) =>
               current.Status = JobStatusDone
        /\ (FinalStatusOf(j, JobStatusCancelled) \/ FinalStatusOf(j, JobStatusFailed)) =>
               Count(EventsOf(j), IsResultEvent) = 0

\* The status-type events published for job j, in publish order.
StatusEventsOf(j) == SelectSeq(EventsOf(j), LAMBDA e : e.Type = EventTypeStatus)

\* C34: once a job's pipeline task has returned and no API call is in progress,
\* the status carried by the last status-type event published for that job id
\* equals the terminal status the Job Manager recorded for that job.
C34_LastStatusEventIsFinalStatus ==
    \A j \in JobIDs :
        (Quiescent /\ task[j].pc = "returned" /\ current.ID = j) =>
            LET evs == StatusEventsOf(j) IN
            /\ evs # <<>>
            /\ evs[Len(evs)].Status = current.Status

\* C35: whenever the Job Manager status is active (preprocessing, transcribing or
\* exporting), a cancellation token for the current job id is recorded, so
\* CancelTranscription cannot fail with NoRunningJob while a job is active.
C35_ActiveJobHasToken ==
    /\ isRunning(current.Status) =>
           cancel # NoCancel /\ cancel = current.ID /\ activeJobID = current.ID
    /\ \A i \in 1 .. Len(cancels) :
           cancels[i].err = ErrNoRunningJob => ~isRunning(cancels[i].job.Status)

(***************************************************************************)
(* Job Manager claims on rejected calls and the job id (checked under      *)
(* ManagerSpec)                                                            *)
(***************************************************************************)
\* The errors each Manager operation can return.
ManagerErrors(op) ==
    CASE op = "Start" -> { ErrJobAlreadyRunning }
      [] op = "Transition" -> { ErrInvalidTransition, ErrNoActiveJob }
      [] op = "Cancel" -> { ErrNoRunningJob }
      [] OTHER -> {}

\* C36: every Job Manager operation that returns an error (Start with
\* AlreadyRunning, Transition with InvalidTransition or usage error, Cancel with
\* NoRunningJob) leaves both job id and status unchanged, and Transition and
\* Cancel never change the job id.
C36_RejectedCallsKeepRecord ==
    /\ mgrRet.err \in { NilErr } \cup ManagerErrors(mgrRet.op)
    /\ mgrRet.err # NilErr => current = mgrRet.before
    /\ mgrRet.op \in { "Transition", "Cancel" } => current.ID = mgrRet.before.ID

\* A transition the table forbids was asked of a job that has an id, and was
\* rejected.
C36_Witness ==
    /\ mgrRet.op = "Transition"
    /\ mgrRet.err = ErrInvalidTransition
    /\ mgrRet.before = Job(1, JobStatusTranscribing)
    /\ mgrRet.to = JobStatusDone
    /\ current = Job(1, JobStatusTranscribing)

\* C37 (as claimed, checked under ManagerNonEmptySpec): in every reachable Job
\* Manager state in which Start was only ever called with non-empty ids, the job
\* id is empty if and only if the status is idle.
C37_EmptyIdIffIdle ==
    (current.ID = EmptyID) <=> (current.Status = JobStatusIdle)

\* C37 (amended): with Start only ever called with non-empty ids, an empty job id
\* implies status idle (every other status has a job id), and a record with a
\* job id and status idle arises only from a successful Transition(idle), which
\* keeps the id.
C37_EmptyIdOnlyWhenIdle ==
    /\ [](current.ID = EmptyID => current.Status = JobStatusIdle)
    /\ [][(current' # current /\ current'.Status = JobStatusIdle
                              /\ current'.ID # EmptyID) =>
             /\ mgrRet'.op = "Transition"
             /\ mgrRet'.to = JobStatusIdle
             /\ mgrRet'.err = NilErr
             /\ current'.ID = current.ID
             /\ current.Status \in TerminalStatuses]_vars

\* A job was started with an id, cancelled, and moved to idle by Transition: the
\* record is idle and still carries the id.
C37_Witness ==
    /\ mgrRet.op = "Transition"
    /\ mgrRet.before = Job(1, JobStatusCancelled)
    /\ mgrRet.err = NilErr
    /\ current = Job(1, JobStatusIdle)

(***************************************************************************)
(* Event Bus claims on polling (checked under ReaderSpec)                  *)
(***************************************************************************)
\* C38: a reader that repeatedly calls JobEvents with the highest seq it has seen
\* so far receives every published event exactly once and in ascending seq
\* order, provided at most N events (the bus capacity) are published between two
\* consecutive polls.
C38_PollingReaderMissesNothing ==
    reader.within =>
        /\ reader.received = SubSeq(published, 1, Len(published) - reader.pending)
        /\ \A i \in 1 .. Len(reader.received) : reader.received[i].Seq = i
        /\ reader.sinceSeq = Len(reader.received)

\* The reader polled a bus of capacity 2 three times, with two events published
\* before each of the first two polls and one before the third: it holds all
\* five, although the bus has trimmed three of them.
C38_Witness ==
    /\ maxEvents = 2
    /\ reader.within
    /\ reader.pending = 0
    /\ Len(reader.received) = 5
    /\ Len(events) = 2
    /\ busRet.op = "Since"
    /\ busRet.seq = 4

(***************************************************************************)
(* Orchestration claims on StartTranscription (checked under Spec)         *)
(***************************************************************************)
\* C39: a successful StartTranscription returns a Job whose id is the id
\* generated by that call and whose status is preprocessing. The call returns
\* a.Jobs.Current(), read once it stands at its return statement.
C39_StartReturnsOwnJob ==
    \A j \in JobIDs :
        starter[j] = "return" => current = Job(j, JobStatusPreprocessing)

\* C40: for every job, the "Job started" status event (status preprocessing)
\* published by StartTranscription is the first event published with that job
\* id: it precedes every event of that job published by the pipeline task or by
\* CancelTranscription.
C40_JobStartedIsFirstEvent ==
    \A j \in JobIDs :
        LET evs == EventsOf(j) IN
        evs # <<>> =>
            /\ evs[1].Type = EventTypeStatus
            /\ evs[1].Status = JobStatusPreprocessing
            /\ evs[1].Message = "Job started"

====
